---------------------------- MODULE Spec2Model ----------------------------
(***************************************************************************)
(* Verification model of topic-sync-automation.                            *)
(*                                                                         *)
(* Text is modelled line by line.  A document is a sequence of lines; a    *)
(* line is a record [ind, txt]: ind is the number of leading blanks and    *)
(* txt the rest of the line as a sequence of tokens (every line ends with  *)
(* a newline).  Entry names are spelled one character per token, so that   *)
(* comparison, prefix and substring tests are computed as Python computes  *)
(* them; fixed keywords of the three document dialects ("topics:", ">-",   *)
(* "StreamTaskConfig(", "- name: ", ...) are one token each.  A line whose *)
(* txt is empty is a whitespace-only line.                                 *)
(***************************************************************************)
EXTENDS Naturals, Integers, Sequences, FiniteSets, TLC

VARIABLES
    surface,        \* the patch script under test: "helm", "airflow", "s3", "dbt"
    file_content,   \* the target document on disk
    args,           \* command line of the script: topic, value_type, sink_type
    before,         \* the document as it was before the last operation
    outcome,        \* what the last operation did (see NoOutcome)
    writes,         \* how many times the target document was opened for writing
    runs,           \* operations performed so far
    models,         \* the model files present in the dbt working copy
    main_pc,        \* where the orchestrator's main thread stands
    task,           \* per PR task: position, working copy state, timeout seen
    future,         \* per PR task: the record its function returned
    results,        \* the outcome map of create_all_prs_parallel
    notifications,  \* the summary notifications posted so far
    exit_code,      \* exit status of the orchestrator, -1 while it runs
    gen             \* the names derived for the topic and the dbt model generated

pvars == <<surface, file_content, before, outcome, writes, runs, models>>
ovars == <<main_pc, task, future, results, notifications, exit_code>>
gvars == <<gen>>
vars == <<surface, file_content, args, before, outcome, writes, runs, models,
          main_pc, task, future, results, notifications, exit_code, gen>>

(***************************************************************************)
(* Bounds of the model.                                                    *)
(***************************************************************************)
MaxEntries == 2     \* existing entries of a section in the initial document
MaxRuns == 2        \* operations applied one after the other to a document

(***************************************************************************)
(* Strings.                                                                *)
(***************************************************************************)
\* Code points of the characters entry names are made of (Python compares
\* str values code point by code point).  The names of whole sources are one
\* token each and stand where their first character, k, puts them.
Ord(c) ==
    CASE c = " " -> 32
      [] c = "," -> 44
      [] c = "-" -> 45
      [] c = "." -> 46
      [] c = ":" -> 58
      [] c = "_" -> 95
      [] c = "a" -> 97
      [] c = "b" -> 98
      [] c = "c" -> 99
      [] c = "d" -> 100
      [] c = "e" -> 101
      [] c \in {"kafka_s3", "kafka_other", "kafka_realtime", "kafka_batch"} -> 107
      [] c = "o" -> 111
      [] c = "p" -> 112
      [] c = "r" -> 114
      [] c = "s" -> 115
      [] c = "t" -> 116
      [] c = "w" -> 119
      [] c = "z" -> 122

RECURSIVE StrLess(_, _)
\* Python's s < t on str.
StrLess(s, t) ==
    IF t = <<>> THEN FALSE
    ELSE IF s = <<>> THEN TRUE
    ELSE IF Ord(Head(s)) < Ord(Head(t)) THEN TRUE
    ELSE IF Ord(Head(s)) > Ord(Head(t)) THEN FALSE
    ELSE StrLess(Tail(s), Tail(t))

\* s.startswith(p)
StartsWith(s, p) == Len(p) <= Len(s) /\ SubSeq(s, 1, Len(p)) = p

\* p in s
Contains(s, p) ==
    \E k \in 0..(Len(s) - Len(p)) : SubSeq(s, k + 1, k + Len(p)) = p

RECURSIVE strip(_)
\* str.strip(): leading and trailing blanks removed
strip(s) ==
    IF s = <<>> THEN s
    ELSE IF Head(s) = " " THEN strip(Tail(s))
    ELSE IF s[Len(s)] = " " THEN strip(SubSeq(s, 1, Len(s) - 1))
    ELSE s

RECURSIVE rstrip_comma(_)
\* str.rstrip(','): every trailing comma removed
rstrip_comma(s) ==
    IF s # <<>> /\ s[Len(s)] = "," THEN rstrip_comma(SubSeq(s, 1, Len(s) - 1))
    ELSE s

RECURSIVE replace_chars(_)
\* topic.replace('.', '__').replace('-', '_')
replace_chars(s) ==
    IF s = <<>> THEN <<>>
    ELSE (CASE Head(s) = "." -> <<"_", "_">>
            [] Head(s) = "-" -> <<"_">>
            [] OTHER -> <<Head(s)>>) \o replace_chars(Tail(s))

\* s.split(':')[0]
split_colon_first(s) ==
    IF \E k \in 1..Len(s) : s[k] = ":"
    THEN SubSeq(s, 1, (CHOOSE k \in 1..Len(s) :
                          s[k] = ":" /\ \A m \in 1..(k - 1) : s[m] # ":") - 1)
    ELSE s

Min(S) == CHOOSE x \in S : \A y \in S : x <= y
Max(S) == CHOOSE x \in S : \A y \in S : x >= y

\* list.insert(i, x) with 0 <= i <= len(list)
list_insert(list, i, x) ==
    SubSeq(list, 1, i) \o <<x>> \o SubSeq(list, i + 1, Len(list))

\* a variant that files the key where a sorted list would have it
insert_position_sorted(keys, key) ==
    Cardinality({i \in 1..Len(keys) : StrLess(keys[i], key)})

\* the first index (from 0) whose element is greater than key, else len(list)
insert_position(keys, key) ==
    IF \E i \in 1..Len(keys) : StrLess(key, keys[i])
    THEN Min({i \in 1..Len(keys) : StrLess(key, keys[i])}) - 1
    ELSE Len(keys)

Line(n, t) == [ind |-> n, txt |-> t]

(***************************************************************************)
(* Identifier derivation.                                                  *)
(***************************************************************************)
get_connector_name(value_type, sink_type) ==
    IF sink_type = "realtime"
    THEN (IF value_type = "json" THEN "snowflake-realtime-sink-json-v2"
          ELSE "snowflake-realtime-sink-protobuf-v2")
    ELSE (IF value_type = "json" THEN "s3-sink-json-to-json"
          ELSE "s3-sink-protobuf-to-json")

generate_table_name(topic) == replace_chars(topic) \o <<"_", "_", "r", "a", "w">>

(***************************************************************************)
(* step1_helm_apps.py: the section patterns.                               *)
(***************************************************************************)
\* [ \t]{8,}[^\n]+\n : eight blanks or more, then one character or more
IsItemLine(l) == (l.ind >= 8 /\ l.txt # <<>>) \/ (l.txt = <<>> /\ l.ind >= 9)

\* the lookahead [ \t]{0,7}\S
IsDedented(l) == l.ind <= 7 /\ l.txt # <<>>

\* <key>\s*>-?\s*\n at token q of line j
IsHeaderAt(doc, j, q, key) ==
    /\ doc[j].txt[q] = key
    /\ SubSeq(doc[j].txt, q + 1, Len(doc[j].txt)) \in {<<">-">>, <<">">>}

\* the last line of the longest run of item lines that starts at line k
RunEnd(doc, k) ==
    Max({e \in k..Len(doc) : \A x \in k..e : IsItemLine(doc[x])})

NoSection == [found |-> FALSE, s |-> 0, e |-> 0]

\* the first line after line j that is not whitespace only, else len + 1
first_nonblank(doc, j) ==
    LET nonblank == {x \in (j + 1)..Len(doc) : doc[x].txt # <<>>}
    IN  IF nonblank = {} THEN Len(doc) + 1 ELSE Min(nonblank)

\* group 2 when the whitespace-only lines after the header end before line k
section_from(doc, j, la, k) ==
    LET given_back == {m \in (j + 1)..(k - 1) : IsItemLine(doc[m])}
    IN  IF k <= Len(doc) /\ IsItemLine(doc[k])
        THEN LET e == RunEnd(doc, k)
             IN  IF la /\ ~(e = Len(doc) \/ IsDedented(doc[e + 1]))
                 THEN NoSection
                 ELSE [found |-> TRUE, s |-> k, e |-> e]
        ELSE IF la
             THEN (IF (k - 1) \in given_back
                   THEN [found |-> TRUE, s |-> k - 1, e |-> k - 1]
                   ELSE NoSection)
             ELSE (IF given_back # {}
                   THEN [found |-> TRUE, s |-> Max(given_back), e |-> Max(given_back)]
                   ELSE NoSection)

\* ((?:[ \t]{8,}[^\n]+\n)+) after the header on line j, with the lookahead
\* (?=[ \t]{0,7}\S|\Z) when la.  The \s* before the newline takes the
\* whitespace-only lines that follow the header; it gives them back only
\* when the first other line is no item line.
SectionAfter(doc, j, la) == section_from(doc, j, la, first_nonblank(doc, j))

\* positions <<line, token>> in reading order
PosLess(a, b) == a[1] < b[1] \/ (a[1] = b[1] /\ a[2] < b[2])
FirstPos(S) == CHOOSE a \in S : \A b \in S : a = b \/ PosLess(a, b)

\* occurrences of re.escape(connector_name) + ':' on or after line from
ConnectorAt(doc, connector_name, from) ==
    UNION {{<<i, p>> : p \in {q \in 1..(Len(doc[i].txt) - 1) :
                                /\ doc[i].txt[q] = connector_name
                                /\ doc[i].txt[q + 1] = ":"}} :
           i \in from..Len(doc)}

NoMatch == [found |-> FALSE, i |-> 0, j |-> 0, s |-> 0, e |-> 0]

\* re.search of  (<connector>:.*?<key>\s*>-?\s*\n)((?:[ \t]{8,}[^\n]+\n)+)
\* from line `from` on: i the connector's line, j the header's line, s..e the
\* lines of group 2.  The match starts at the first occurrence of the
\* connector and .*? stops at the first header after it whose section matches.
re_search(doc, connector_name, key, la, from) ==
    LET occ == ConnectorAt(doc, connector_name, from)
    IN  IF occ = {} THEN NoMatch
        ELSE LET c == FirstPos(occ)
                 heads == UNION {{<<j, q>> : q \in {r \in 1..Len(doc[j].txt) :
                                /\ PosLess(<<c[1], c[2] + 1>>, <<j, r>>)
                                /\ IsHeaderAt(doc, j, r, key)
                                /\ SectionAfter(doc, j, la).found}} :
                                 j \in c[1]..Len(doc)}
             IN  IF heads = {} THEN NoMatch
                 ELSE LET h == FirstPos(heads)
                          sec == SectionAfter(doc, h[1], la)
                      IN  [found |-> TRUE, i |-> c[1], j |-> h[1],
                           s |-> sec.s, e |-> sec.e]

RECURSIVE re_subn(_, _, _, _, _)
\* re.subn(pattern, lambda m: m.group(1) + formatted + "\n", content): every
\* match from line `from` on has its group 2 replaced by the lines `formatted`
re_subn(doc, connector_name, key, formatted, from) ==
    LET m == re_search(doc, connector_name, key, TRUE, from)
    IN  IF ~m.found THEN SubSeq(doc, from, Len(doc))
        ELSE SubSeq(doc, from, m.s - 1) \o formatted
                \o re_subn(doc, connector_name, key, formatted, m.e + 1)

\* [t.strip().rstrip(',') for t in section.strip().split('\n') if t.strip()]
RECURSIVE parse_entries(_)
parse_entries(lines) ==
    IF lines = <<>> THEN <<>>
    ELSE (IF strip(Head(lines).txt) = <<>> THEN <<>>
          ELSE <<rstrip_comma(strip(Head(lines).txt))>>)
         \o parse_entries(Tail(lines))

\* '        ' + ',\n        '.join(list) + '\n'
format_entries(list) ==
    [n \in 1..Len(list) |->
        Line(8, IF n < Len(list) THEN list[n] \o <<",">> ELSE list[n])]

(***************************************************************************)
(* step1_helm_apps.py: the guard and the insertion.                        *)
(***************************************************************************)
check_topic_exists(content, connector_name, topic) ==
    LET match == re_search(content, connector_name, "topics:", FALSE, 1)
    IN  IF ~match.found THEN FALSE
        ELSE LET topic_list == parse_entries(SubSeq(content, match.s, match.e))
             IN  \E n \in 1..Len(topic_list) : topic_list[n] = topic

\* lines 97-140: the snowflake.topic2table.map section of a realtime connector
add_mapping(new_content, connector_name, topic, sink_type) ==
    LET new_mapping == topic \o <<":">> \o generate_table_name(topic)
        map_match == re_search(new_content, connector_name,
                               "snowflake.topic2table.map:", TRUE, 1)
        mapping_list == parse_entries(SubSeq(new_content, map_match.s, map_match.e))
        keys == [n \in 1..Len(mapping_list) |-> split_colon_first(mapping_list[n])]
    IN  IF sink_type # "realtime" THEN new_content
        ELSE IF ~map_match.found THEN new_content
        ELSE IF \E n \in 1..Len(mapping_list) :
                    StartsWith(mapping_list[n], topic \o <<":">>)
        THEN new_content
        ELSE re_subn(new_content, connector_name, "snowflake.topic2table.map:",
                     format_entries(list_insert(mapping_list,
                                                insert_position(keys, topic),
                                                new_mapping)), 1)

\* a variant that gives up when a realtime connector has no map section
add_topic_to_file_strict(content, connector_name, topic, sink_type) ==
    LET match == re_search(content, connector_name, "topics:", TRUE, 1)
        topic_list == parse_entries(SubSeq(content, match.s, match.e))
        inserted == list_insert(topic_list, insert_position(topic_list, topic), topic)
        new_content == re_subn(content, connector_name, "topics:",
                               format_entries(inserted), 1)
        map_found == re_search(new_content, connector_name,
                               "snowflake.topic2table.map:", TRUE, 1).found
    IN  IF ~match.found \/ (sink_type = "realtime" /\ ~map_found)
        THEN [ok |-> FALSE, content |-> content]
        ELSE [ok |-> TRUE,
              content |-> add_mapping(new_content, connector_name, topic, sink_type)]

\* ok = FALSE is sys.exit(1), "Could not find topics section"
add_topic_to_file(content, connector_name, topic, sink_type) ==
    LET match == re_search(content, connector_name, "topics:", TRUE, 1)
        topic_list == parse_entries(SubSeq(content, match.s, match.e))
        inserted == list_insert(topic_list, insert_position(topic_list, topic), topic)
        new_content == re_subn(content, connector_name, "topics:",
                               format_entries(inserted), 1)
    IN  IF ~match.found THEN [ok |-> FALSE, content |-> content]
        ELSE [ok |-> TRUE,
              content |-> add_mapping(new_content, connector_name, topic, sink_type)]

(***************************************************************************)
(* step2_data_airflow.py.                                                  *)
(***************************************************************************)
Quote == "\""

\* 'table="' + table_name + '"'
TableAttr(table_name) == <<"table=\"">> \o table_name \o <<Quote>>

\* pattern in content, for a pattern without a newline
InContent(content, pattern) ==
    \E i \in 1..Len(content) : Contains(content[i].txt, pattern)

\* a variant whose guard never reports the table
check_config_exists_never(content, table_name) == FALSE

check_config_exists(content, table_name) == InContent(content, TableAttr(table_name))

\* re.search(r'table="([^"]+)"', line): where the first table attribute of
\* the line starts and where its closing quote stands (0, 0 when none)
TableMatch(txt) ==
    LET starts == {p \in 1..Len(txt) :
                     /\ txt[p] = "table=\""
                     /\ p + 1 <= Len(txt) /\ txt[p + 1] # Quote
                     /\ \E q \in (p + 2)..Len(txt) : txt[q] = Quote}
    IN  IF starts = {} THEN <<0, 0>>
        ELSE LET p == Min(starts)
             IN  <<p, Min({q \in (p + 2)..Len(txt) : txt[q] = Quote})>>

HasTable(l) == TableMatch(l.txt)[1] # 0
TableOf(l) == SubSeq(l.txt, TableMatch(l.txt)[1] + 1, TableMatch(l.txt)[2] - 1)

\* 'StreamTaskConfig(' in line
HasStreamTaskConfig(l) == \E p \in 1..Len(l.txt) : l.txt[p] = "StreamTaskConfig("

\* line.strip() == ''
IsBlank(l) == strip(l.txt) = <<>>

\* line.strip().endswith('),')
EndsEntry(l) == strip(l.txt) # <<>> /\ strip(l.txt)[Len(strip(l.txt))] = "),"

Blanks(n) == [k \in 1..n |-> " "]

\* a line as the characters it is made of, and back
Flat(l) == Blanks(l.ind) \o l.txt
LeadingBlanks(t) == Max({n \in 0..Len(t) : \A k \in 1..n : t[k] = " "})
MkLine(t) == Line(LeadingBlanks(t), SubSeq(t, LeadingBlanks(t) + 1, Len(t)))

\* (configs\s*=\s*\[)(.*?)(\n\s*\]): c the line of the first "configs = [",
\* p its token, m the last line of group 2; group 3 is the blank lines after
\* m and the first later line that starts with "]"
configs_search(content) ==
    LET occ == UNION {{<<i, q>> : q \in {r \in 1..Len(content[i].txt) :
                                           content[i].txt[r] = "configs = ["}} :
                      i \in 1..Len(content)}
    IN  IF occ = {} THEN [found |-> FALSE, c |-> 0, p |-> 0, m |-> 0]
        ELSE LET c == FirstPos(occ)
                 closing == {k \in (c[1] + 1)..Len(content) :
                               content[k].txt # <<>> /\ content[k].txt[1] = "]"}
             IN  IF closing = {} THEN [found |-> FALSE, c |-> 0, p |-> 0, m |-> 0]
                 ELSE [found |-> TRUE, c |-> c[1], p |-> c[2],
                       m |-> Max({x \in c[1]..(Min(closing) - 1) :
                                    x = c[1] \/ ~IsBlank(content[x])})]

\* configs_content.split('\n'): the rest of the "configs = [" line, then the
\* lines of the list
configs_lines(content, match) ==
    <<MkLine(SubSeq(content[match.c].txt, match.p + 1, Len(content[match.c].txt)))>>
    \o SubSeq(content, match.c + 1, match.m)

\* lines 46-62: the line to insert at (from 1), 0 for None
insert_line_index(lines, table_name) ==
    LET tabled == {i \in 1..Len(lines) : HasTable(lines[i])}
        greater == {i \in tabled : StrLess(table_name, TableOf(lines[i]))}
    IN  IF greater = {} THEN 0
        ELSE LET i == Min(greater)
                 opening == {j \in 1..i : HasStreamTaskConfig(lines[j])}
             IN  IF opening = {} THEN 0 ELSE Max(opening)

\* lines 64-71: the indentation of the first StreamTaskConfig( line
detect_indent(lines) ==
    LET opening == {j \in 1..Len(lines) : HasStreamTaskConfig(lines[j])}
    IN  IF opening = {} THEN 8
        ELSE IF lines[Min(opening)].ind >= 1 THEN lines[Min(opening)].ind
        ELSE 8

new_entry_lines(indent, table_name) ==
    <<Line(indent, <<"StreamTaskConfig(">>),
      Line(indent + 4, TableAttr(table_name) \o <<",">>),
      Line(indent + 4, <<"warehouse=\"LOADER_PRODUCTION_STREAMING\",">>),
      Line(indent, <<"),">>)>>

\* lines 81-106: the list's lines with the new entry put in
insert_entry(lines, table_name) ==
    LET at == insert_line_index(lines, table_name)
        entry == new_entry_lines(detect_indent(lines), table_name)
        closed == {i \in 1..Len(lines) : EndsEntry(lines[i])}
    IN  IF at # 0
        THEN (IF at > 1 /\ IsBlank(lines[at - 1])
              THEN SubSeq(lines, 1, at - 2) \o entry \o SubSeq(lines, at, Len(lines))
              ELSE SubSeq(lines, 1, at - 1) \o entry \o SubSeq(lines, at, Len(lines)))
        ELSE IF closed = {} THEN lines
        ELSE LET i == Max(closed)
                 kept == {x \in (i + 1)..Len(lines) :
                            \E y \in (i + 1)..x : ~IsBlank(lines[y])}
                 rest == IF kept = {} THEN <<>>
                         ELSE SubSeq(lines, Min(kept), Len(lines))
             IN  SubSeq(lines, 1, i) \o entry \o rest

\* '\n'.join(lines) put back after the prefix: the first element goes on the
\* "configs = [" line
join_lines(content, match, lines) ==
    <<Line(content[match.c].ind,
           SubSeq(content[match.c].txt, 1, match.p) \o Flat(lines[1]))>>
    \o Tail(lines)

\* ok = FALSE is sys.exit(1), "Could not find 'configs = [...]' section"
add_stream_config_to_file(content, table_name) ==
    LET match == configs_search(content)
        lines == configs_lines(content, match)
    IN  IF ~match.found THEN [ok |-> FALSE, content |-> content]
        ELSE [ok |-> TRUE,
              content |-> SubSeq(content, 1, match.c - 1)
                          \o join_lines(content, match, insert_entry(lines, table_name))
                          \o SubSeq(content, match.m + 1, Len(content))]

(***************************************************************************)
(* step3_dbt_s3_sink.py.                                                   *)
(***************************************************************************)
\* args.topic.replace(".", "__").replace("-", "_")
topic_table_of(topic) == replace_chars(topic)

\* 'tables:' in line
HasTablesKey(l) == \E p \in 1..Len(l.txt) : l.txt[p] = "tables:"

\* re.compile(r'^(\s+)-\s+name:\s+(.+)$').match(line)
IsNameEntry(l) == l.ind >= 1 /\ Len(l.txt) >= 2 /\ l.txt[1] = "- name: "
NameOf(l) == strip(Tail(l.txt))

\* the loop that collects table_entries: the numbers of the lines, from 1,
\* that open an entry.  The scan starts after the first line with 'tables:'
\* and ends at the first line after it that is not indented at all.
table_entries(lines) ==
    LET keyed == {i \in 1..Len(lines) : HasTablesKey(lines[i])}
        t == Min(keyed)
        stops == {x \in (t + 1)..Len(lines) :
                    /\ ~HasTablesKey(lines[x])
                    /\ ~IsBlank(lines[x])
                    /\ lines[x].ind = 0}
        stop == IF stops = {} THEN Len(lines) + 1 ELSE Min(stops)
    IN  IF keyed = {} THEN {}
        ELSE {i \in (t + 1)..(stop - 1) :
                ~HasTablesKey(lines[i]) /\ IsNameEntry(lines[i])}

\* the header written to a new sources file
s3_header ==
    <<Line(0, <<"version: 2">>),
      Line(0, <<>>),
      Line(0, <<"sources:">>),
      Line(2, <<"- name: ", "kafka_s3">>),
      Line(4, <<"database: raw_kafka_s3_production">>),
      Line(4, <<"schema: public">>),
      Line(4, <<"tables:">>)>>

\* source_definition
s3_source_definition(topic) ==
    <<Line(6, <<"- name: ">> \o topic_table_of(topic)),
      Line(8, <<"description: This is an external table, mounted on an S3 bucket correlating to Kafka topic ">>
              \o topic),
      Line(8, <<"external:">>),
      Line(10, <<"location: \"@raw_kafka_s3_production.public.stage_kafka_s3_production/">>
               \o topic \o <<"/\"">>),
      Line(10, <<"file_format: \"( type = json )\"">>),
      Line(10, <<"partitions:">>),
      Line(12, <<"- name: ", "d", "t">>),
      Line(14, <<"data_type: date">>),
      Line(14, <<"expression: >-">>),
      Line(16, <<"to_date(split_part(split_part(metadata$filename, '/', 3), '=', 2)">>),
      Line(24, <<"|| '-' ||">>),
      Line(24, <<"split_part(split_part(metadata$filename, '/', 4), '=', 2)">>),
      Line(24, <<"|| '-' ||">>),
      Line(24, <<"split_part(split_part(metadata$filename, '/', 5), '=', 2))">>)>>

\* lines 217-234: the index (from 0) at which the new lines are spliced in
s3_insert_line(lines, topic_table) ==
    LET entries == table_entries(lines)
        greater == {i \in entries : StrLess(topic_table, NameOf(lines[i]))}
        last == Max(entries)
        body == {x \in (last + 1)..Len(lines) :
                   \A y \in (last + 1)..x : lines[y].ind >= 8}
    IN  IF greater # {} THEN Min(greater) - 1
        ELSE IF body = {} THEN last ELSE Max(body)

\* lines 181-253: the sources file after the script ran
s3_new_sources(existing_content, topic) ==
    IF existing_content = <<>> THEN s3_header \o s3_source_definition(topic)
    ELSE IF table_entries(existing_content) = {}
    THEN existing_content \o s3_source_definition(topic)
    ELSE LET at == s3_insert_line(existing_content, topic_table_of(topic))
         IN  SubSeq(existing_content, 1, at) \o s3_source_definition(topic)
             \o SubSeq(existing_content, at + 1, Len(existing_content))

(***************************************************************************)
(* step3_dbt_realtime_sink.py: add_source_to_yaml.                         *)
(***************************************************************************)
\* generate_source_config(table_name)['name']
source_table_name(table_name) ==
    table_name \o <<"_", "p", "r", "o", "c", "e", "s", "s", "e", "d">>

\* yaml.safe_load(content)['sources']: the lines, from 1, that open a source
\* (the items of the top-level sequence, indented by two)
yaml_sources(lines) ==
    {i \in 1..Len(lines) : lines[i].ind = 2 /\ IsNameEntry(lines[i])}

\* the first source whose name is 'kafka_realtime', 0 when there is none
kafka_realtime_source(lines) ==
    LET named == {i \in yaml_sources(lines) : NameOf(lines[i]) = <<"kafka_realtime">>}
    IN  IF named = {} THEN 0 ELSE Min(named)

\* source.get('tables', []): the lines that open a table of the source that
\* starts on line src (the items, indented by six, under its 'tables:' key)
yaml_tables(lines, src) ==
    LET later == {i \in yaml_sources(lines) : i > src}
        end == IF later = {} THEN Len(lines) + 1 ELSE Min(later)
        keys == {k \in (src + 1)..(end - 1) : lines[k].ind = 4 /\ HasTablesKey(lines[k])}
    IN  IF keys = {} THEN {}
        ELSE {i \in (Min(keys) + 1)..(end - 1) : lines[i].ind = 6 /\ IsNameEntry(lines[i])}

existing_table_names(lines) ==
    {NameOf(lines[i]) : i \in yaml_tables(lines, kafka_realtime_source(lines))}

\* the source has a 'tables:' key with nothing under it: safe_load gives None
\* for it, and the list comprehension over None raises TypeError
tables_is_none(lines, src) ==
    LET later == {i \in yaml_sources(lines) : i > src}
        end == IF later = {} THEN Len(lines) + 1 ELSE Min(later)
        keys == {k \in (src + 1)..(end - 1) : lines[k].ind = 4 /\ HasTablesKey(lines[k])}
    IN  keys # {} /\ lines[Min(keys)].txt = <<"tables:">> /\ yaml_tables(lines, src) = {}

\* lines 582-595: the index (from 0) at which the new line is spliced in
dbt_insert_line(lines, new_table_name) ==
    LET entries == table_entries(lines)
        greater == {i \in entries : StrLess(new_table_name, NameOf(lines[i]))}
    IN  IF greater # {} THEN Min(greater) - 1 ELSE Max(entries)

\* added = FALSE is "return False, None, None"; raised is the TypeError
add_source_to_yaml(lines, table_name) ==
    LET new_table_name == source_table_name(table_name)
        entries == table_entries(lines)
        at == dbt_insert_line(lines, new_table_name)
        new_line == Line(lines[Min(entries)].ind, <<"- name: ">> \o new_table_name)
        src == kafka_realtime_source(lines)
    IN  IF src = 0 THEN [added |-> FALSE, raised |-> FALSE, content |-> lines]
        ELSE IF tables_is_none(lines, src)
        THEN [added |-> FALSE, raised |-> TRUE, content |-> lines]
        ELSE IF new_table_name \in existing_table_names(lines)
        THEN [added |-> FALSE, raised |-> FALSE, content |-> lines]
        ELSE IF entries = {} THEN [added |-> FALSE, raised |-> FALSE, content |-> lines]
        ELSE [added |-> TRUE, raised |-> FALSE,
              content |-> SubSeq(lines, 1, at) \o <<new_line>>
                          \o SubSeq(lines, at + 1, Len(lines))]

(***************************************************************************)
(* Input documents of the helm patcher (values.yaml).                      *)
(***************************************************************************)
Names == {<<"a">>, <<"b">>, <<"a", ".", "b">>}
Topics == Names \cup {<<"c">>}

\* existing entries: every sequence of distinct names, in any order
EntryLists ==
    UNION {{e \in [1..n -> Names] : \A x, y \in 1..n : x # y => e[x] # e[y]} :
           n \in 0..MaxEntries}

\* ind: indentation of the entry lines; comma: the last entry line ends with
\* a comma; gap: a blank line follows the topics section; map: the connector
\* has a snowflake.topic2table.map section; tail: what follows the connector
\* ("spaced": a blank line follows the connector's last section)
HelmShapes ==
    {[ind |-> 8,  comma |-> FALSE, gap |-> FALSE, map |-> TRUE,  tail |-> "other"],
     [ind |-> 10, comma |-> FALSE, gap |-> FALSE, map |-> TRUE,  tail |-> "other"],
     [ind |-> 8,  comma |-> TRUE,  gap |-> FALSE, map |-> TRUE,  tail |-> "other"],
     [ind |-> 8,  comma |-> FALSE, gap |-> TRUE,  map |-> TRUE,  tail |-> "other"],
     [ind |-> 8,  comma |-> FALSE, gap |-> TRUE,  map |-> FALSE, tail |-> "none"],
     [ind |-> 8,  comma |-> FALSE, gap |-> FALSE, map |-> FALSE, tail |-> "eof"],
     [ind |-> 8,  comma |-> FALSE, gap |-> FALSE, map |-> TRUE,  tail |-> "decoy"],
     [ind |-> 8,  comma |-> FALSE, gap |-> FALSE, map |-> FALSE, tail |-> "other"],
     [ind |-> 8,  comma |-> FALSE, gap |-> FALSE, map |-> FALSE, tail |-> "none"],
     [ind |-> 9,  comma |-> FALSE, gap |-> FALSE, map |-> FALSE, tail |-> "blanks"],
     [ind |-> 8,  comma |-> FALSE, gap |-> FALSE, map |-> TRUE,  tail |-> "spaced"]}

ItemLines(list, ind, comma) ==
    [n \in 1..Len(list) |->
        Line(ind, IF n < Len(list) \/ comma THEN list[n] \o <<",">> ELSE list[n])]

MappingOf(list) ==
    [n \in 1..Len(list) |-> list[n] \o <<":">> \o generate_table_name(list[n])]

OtherConnector == "snowflake-realtime-sink-protobuf-v2"

\* a connector's block: its key, its topics section and, for a realtime
\* connector, its topic2table map
ConnectorBlock(key, list, shape, realtime) ==
    <<Line(2, key), Line(4, <<"config:">>), Line(6, <<"topics:", ">-">>)>>
    \o (IF shape.tail = "blanks" THEN <<Line(shape.ind, <<>>)>>
        ELSE ItemLines(list, shape.ind, shape.comma))
    \o (IF shape.gap THEN <<Line(0, <<>>)>> ELSE <<>>)
    \o (IF realtime /\ shape.map
        THEN <<Line(6, <<"snowflake.topic2table.map:", ">-">>)>>
             \o ItemLines(MappingOf(list), shape.ind, shape.comma)
        ELSE <<>>)
    \o (IF shape.tail = "spaced" THEN <<Line(0, <<>>)>> ELSE <<>>)
    \o (IF shape.tail = "eof" THEN <<>> ELSE <<Line(6, <<"tasks.max: 1">>)>>)

Canonical == [ind |-> 8, comma |-> FALSE, gap |-> FALSE, map |-> TRUE, tail |-> "none"]

HelmDocument(connector_name, list, shape, realtime) ==
    <<Line(0, <<"connectors:">>)>>
    \o ConnectorBlock(<<connector_name, ":">>, list, shape, realtime)
    \o (CASE shape.tail = "other" ->
                ConnectorBlock(<<OtherConnector, ":">>, <<<<"b">>>>, Canonical, TRUE)
          [] shape.tail = "decoy" ->
                ConnectorBlock(<<"old-", connector_name, ":">>, <<<<"b">>>>,
                               Canonical, realtime)
          [] OTHER -> <<>>)

(***************************************************************************)
(* step1_helm_apps.py: main.                                               *)
(***************************************************************************)
NoOutcome == [op |-> "none", exit |-> 0, guard |-> FALSE, wrote |-> FALSE]

\* line 215: connector_name not in file_content
ConnectorInFile(content, connector_name) ==
    \E i \in 1..Len(content) : \E p \in 1..Len(content[i].txt) :
        content[i].txt[p] = connector_name

HelmInit ==
    /\ surface = "helm"
    /\ args \in [topic : Topics, value_type : {"json", "protobuf"},
                 sink_type : {"realtime", "s3"}]
    /\ \E list \in EntryLists, shape \in HelmShapes :
          file_content = HelmDocument(get_connector_name("json", args.sink_type),
                                      list, shape, args.sink_type = "realtime")
    /\ models = {}

\* the script, lines 164-301
HelmMain ==
    /\ surface = "helm"
    /\ runs < MaxRuns
    /\ runs' = runs + 1
    /\ before' = file_content
    /\ \E connector_name \in {get_connector_name(args.value_type, args.sink_type)} :
       \E added \in {add_topic_to_file(file_content, connector_name, args.topic,
                                        args.sink_type)} :
       LET exists == check_topic_exists(file_content, connector_name, args.topic)
       IN  IF ~ConnectorInFile(file_content, connector_name)
           THEN /\ outcome' = [op |-> "main", exit |-> 1, guard |-> FALSE, wrote |-> FALSE]
                /\ UNCHANGED <<file_content, writes>>
           ELSE IF exists
           THEN /\ outcome' = [op |-> "main", exit |-> 0, guard |-> TRUE, wrote |-> FALSE]
                /\ UNCHANGED <<file_content, writes>>
           ELSE IF ~added.ok
           THEN /\ outcome' = [op |-> "main", exit |-> 1, guard |-> FALSE, wrote |-> FALSE]
                /\ UNCHANGED <<file_content, writes>>
           ELSE \E dry_run \in BOOLEAN :
                  IF dry_run
                  THEN /\ outcome' = [op |-> "main", exit |-> 0, guard |-> FALSE,
                                      wrote |-> FALSE]
                       /\ UNCHANGED <<file_content, writes>>
                  ELSE /\ outcome' = [op |-> "main", exit |-> 0, guard |-> FALSE,
                                      wrote |-> TRUE]
                       /\ file_content' = added.content
                       /\ writes' = writes + 1
    /\ UNCHANGED <<surface, args, models>>
    /\ UNCHANGED <<ovars, gvars>>

\* add_topic_to_file called on the document, its result the new document
HelmInsert ==
    /\ surface = "helm"
    /\ runs < MaxRuns
    /\ runs' = runs + 1
    /\ before' = file_content
    /\ \E connector_name \in {get_connector_name(args.value_type, args.sink_type)} :
       \E added \in {add_topic_to_file(file_content, connector_name, args.topic,
                                        args.sink_type)} :
           /\ outcome' = [op |-> "insert", exit |-> IF added.ok THEN 0 ELSE 1,
                          guard |-> FALSE, wrote |-> FALSE]
           /\ file_content' = added.content
    /\ UNCHANGED <<surface, args, writes, models>>
    /\ UNCHANGED <<ovars, gvars>>

(***************************************************************************)
(* Input documents and the script of step2_data_airflow.py.                *)
(***************************************************************************)
AirflowShapes ==
    {[sep |-> FALSE, comma |-> TRUE,  inline |-> FALSE, head |-> "configs", extra |-> FALSE],
     [sep |-> TRUE,  comma |-> TRUE,  inline |-> FALSE, head |-> "configs", extra |-> FALSE],
     [sep |-> FALSE, comma |-> FALSE, inline |-> FALSE, head |-> "configs", extra |-> FALSE],
     [sep |-> FALSE, comma |-> TRUE,  inline |-> TRUE,  head |-> "configs", extra |-> FALSE],
     [sep |-> FALSE, comma |-> TRUE,  inline |-> FALSE, head |-> "configs", extra |-> TRUE],
     [sep |-> FALSE, comma |-> TRUE,  inline |-> FALSE, head |-> "streams", extra |-> FALSE],
     [sep |-> FALSE, comma |-> TRUE,  inline |-> FALSE, head |-> "decoy",   extra |-> FALSE]}

\* one StreamTaskConfig of a DAG file
StreamTaskConfig(name, shape, last) ==
    LET close == IF last /\ ~shape.comma THEN ")" ELSE "),"
        table == TableAttr(generate_table_name(name))
    IN  (IF shape.inline
         THEN <<Line(4, <<"StreamTaskConfig(">> \o table \o <<close>>)>>
         ELSE <<Line(4, <<"StreamTaskConfig(">>),
                Line(8, table \o <<",">>),
                Line(8, <<"warehouse=\"LOADER_PRODUCTION_STREAMING\",">>),
                Line(4, <<close>>)>>)
        \o (IF shape.sep THEN <<Line(0, <<>>)>> ELSE <<>>)

RECURSIVE StreamTaskConfigs(_, _)
StreamTaskConfigs(list, shape) ==
    IF list = <<>> THEN <<>>
    ELSE StreamTaskConfig(Head(list), shape, Len(list) = 1)
         \o StreamTaskConfigs(Tail(list), shape)

AirflowDocument(list, shape) ==
    LET other == <<Line(4, <<"StreamTaskConfig(">> \o TableAttr(generate_table_name(<<"c">>))
                           \o <<"),">>),
                   Line(0, <<"]">>)>>
    IN  <<Line(0, <<"# stream tasks">>)>>
        \o (IF shape.head = "decoy"
            THEN <<Line(0, <<"extra_", "configs = [">>)>> \o other ELSE <<>>)
        \o <<Line(0, <<IF shape.head = "streams" THEN "streams = [" ELSE "configs = [">>)>>
        \o StreamTaskConfigs(list, shape)
        \o <<Line(0, <<"]">>)>>
        \o (IF shape.extra THEN <<Line(0, <<"legacy = [">>)>> \o other ELSE <<>>)
        \o <<Line(0, <<"dag = build(configs)">>)>>

AirflowInit ==
    /\ surface = "airflow"
    /\ args \in [topic : Topics, value_type : {"json"}, sink_type : {"realtime"}]
    /\ \E list \in EntryLists, shape \in AirflowShapes :
          file_content = AirflowDocument(list, shape)
    /\ models = {}

\* the script, lines 131-246
AirflowMain ==
    /\ surface = "airflow"
    /\ runs < MaxRuns
    /\ runs' = runs + 1
    /\ before' = file_content
    /\ LET table_name == generate_table_name(args.topic)
           added == add_stream_config_to_file(file_content, table_name)
       IN  IF check_config_exists(file_content, table_name)
           THEN /\ outcome' = [op |-> "main", exit |-> 0, guard |-> TRUE, wrote |-> FALSE]
                /\ UNCHANGED <<file_content, writes>>
           ELSE IF ~added.ok
           THEN /\ outcome' = [op |-> "main", exit |-> 1, guard |-> FALSE, wrote |-> FALSE]
                /\ UNCHANGED <<file_content, writes>>
           ELSE \E dry_run \in BOOLEAN :
                  IF dry_run
                  THEN /\ outcome' = [op |-> "main", exit |-> 0, guard |-> FALSE,
                                      wrote |-> FALSE]
                       /\ UNCHANGED <<file_content, writes>>
                  ELSE /\ outcome' = [op |-> "main", exit |-> 0, guard |-> FALSE,
                                      wrote |-> TRUE]
                       /\ file_content' = added.content
                       /\ writes' = writes + 1
    /\ UNCHANGED <<surface, args, models>>
    /\ UNCHANGED <<ovars, gvars>>

(***************************************************************************)
(* Input documents and the script of step3_dbt_s3_sink.py.  The sources    *)
(* file that does not exist is the empty document.                         *)
(***************************************************************************)
S3Shapes == {"generated", "absent", "short", "second"}

RECURSIVE S3Tables(_, _)
S3Tables(list, short) ==
    IF list = <<>> THEN <<>>
    ELSE (IF short
          THEN <<Line(6, <<"- name: ">> \o topic_table_of(Head(list))),
                 Line(8, <<"description: external table">>)>>
          ELSE s3_source_definition(Head(list)))
         \o S3Tables(Tail(list), short)

S3Document(list, shape) ==
    IF shape = "absent" THEN <<>>
    ELSE s3_header \o S3Tables(list, shape = "short")
         \o (IF shape = "second"
             THEN <<Line(2, <<"- name: ", "kafka_other">>),
                    Line(4, <<"tables:">>),
                    Line(6, <<"- name: ", "z">>)>>
             ELSE <<>>)

base_model(topic_table) == <<"models/staging/kafka/external", topic_table>>
typecast_model(topic_table) == <<"models/staging/kafka", topic_table>>

S3Init ==
    /\ surface = "s3"
    /\ args \in [topic : Topics, value_type : {"json"}, sink_type : {"s3"}]
    /\ \E list \in EntryLists, shape \in S3Shapes :
          file_content = S3Document(list, shape)
    /\ models \in {{}, {typecast_model(topic_table_of(args.topic))}}

\* the script, lines 82-302
S3Main ==
    /\ surface = "s3"
    /\ runs < MaxRuns
    /\ runs' = runs + 1
    /\ before' = file_content
    /\ LET topic_table == topic_table_of(args.topic)
       IN  IF file_content # <<>> /\ InContent(file_content, topic_table)
           THEN /\ outcome' = [op |-> "main", exit |-> 0, guard |-> TRUE, wrote |-> FALSE]
                /\ UNCHANGED <<file_content, writes, models>>
           ELSE \E dry_run \in BOOLEAN :
                  IF dry_run
                  THEN /\ outcome' = [op |-> "main", exit |-> 0, guard |-> FALSE,
                                      wrote |-> FALSE]
                       /\ UNCHANGED <<file_content, writes, models>>
                  ELSE /\ outcome' = [op |-> "main", exit |-> 0, guard |-> FALSE,
                                      wrote |-> TRUE]
                       /\ file_content' = s3_new_sources(file_content, args.topic)
                       /\ writes' = writes + 1
                       /\ models' = models \cup {base_model(topic_table),
                                                 typecast_model(topic_table)}
    /\ UNCHANGED <<surface, args>>
    /\ UNCHANGED <<ovars, gvars>>

(***************************************************************************)
(* Input documents of step3_dbt_realtime_sink.py and the call of           *)
(* add_source_to_yaml on them.                                             *)
(***************************************************************************)
DbtShapes == {"plain", "described", "renamed", "second", "first", "flow"}

RECURSIVE DbtTables(_, _)
DbtTables(list, described) ==
    IF list = <<>> THEN <<>>
    ELSE <<Line(6, <<"- name: ">> \o source_table_name(generate_table_name(Head(list))))>>
         \o (IF described THEN <<Line(8, <<"description: processed stream">>)>> ELSE <<>>)
         \o DbtTables(Tail(list), described)

OtherSource ==
    <<Line(2, <<"- name: ", "kafka_other">>),
      Line(4, <<"tables:">>),
      Line(6, <<"- name: ", "z">>)>>

DbtDocument(list, shape) ==
    <<Line(0, <<"version: 2">>), Line(0, <<>>), Line(0, <<"sources:">>)>>
    \o (IF shape = "first" THEN OtherSource ELSE <<>>)
    \o <<Line(2, <<"- name: ", IF shape = "renamed" THEN "kafka_batch" ELSE "kafka_realtime">>),
         Line(4, <<"database: raw_kafka_realtime">>)>>
    \o (IF shape = "flow" THEN <<Line(4, <<"tables:", " []">>)>>
        ELSE <<Line(4, <<"tables:">>)>> \o DbtTables(list, shape = "described"))
    \o (IF shape = "second" THEN OtherSource ELSE <<>>)

DbtInit ==
    /\ surface = "dbt"
    /\ args \in [topic : Topics, value_type : {"json"}, sink_type : {"realtime"}]
    /\ \E list \in EntryLists, shape \in DbtShapes :
          file_content = DbtDocument(list, shape)
    /\ models = {}

\* add_source_to_yaml(sources_file, table_name, dry_run), lines 508-613; exit
\* is 0 when it returned True, 1 when it returned False, 2 when it raised
DbtAddSource ==
    /\ surface = "dbt"
    /\ runs < MaxRuns
    /\ runs' = runs + 1
    /\ before' = file_content
    /\ LET table_name == generate_table_name(args.topic)
           result == add_source_to_yaml(file_content, table_name)
           exists == /\ kafka_realtime_source(file_content) # 0
                     /\ source_table_name(table_name) \in existing_table_names(file_content)
       IN  IF ~result.added
           THEN /\ outcome' = [op |-> "add_source",
                               exit |-> IF result.raised THEN 2 ELSE 1,
                               guard |-> exists /\ ~result.raised, wrote |-> FALSE]
                /\ UNCHANGED <<file_content, writes>>
           ELSE \E dry_run \in BOOLEAN :
                  IF dry_run
                  THEN /\ outcome' = [op |-> "add_source", exit |-> 0, guard |-> FALSE,
                                      wrote |-> FALSE]
                       /\ UNCHANGED <<file_content, writes>>
                  ELSE /\ outcome' = [op |-> "add_source", exit |-> 0, guard |-> FALSE,
                                      wrote |-> TRUE]
                       /\ file_content' = result.content
                       /\ writes' = writes + 1
    /\ UNCHANGED <<surface, args, models>>
    /\ UNCHANGED <<ovars, gvars>>

(***************************************************************************)
(* parallel_pr_creator.py.  A PR task is the function submitted to the     *)
(* pool; it advances one external command at a time.                       *)
(***************************************************************************)
Steps == {"helm-apps", "data-airflow", "dbt"}

\* futures_to_create, lines 788-803
Submitted(sink_type) ==
    IF sink_type = "realtime" THEN {"helm-apps", "data-airflow"}
    ELSE {"helm-apps", "dbt"}

\* what run_command can come back with: returncode 0, another returncode, or
\* (1, "", "Command timed out")
CmdOutcomes == {"ok", "failed", "timeout"}

NoResult == [status |-> "none", error |-> "", pr_url |-> ""]
Failed(error) == [status |-> "failed", error |-> error, pr_url |-> ""]
NoChanges(error) == [status |-> "no_changes", error |-> error, pr_url |-> ""]
Skipped(error) == [status |-> "skipped", error |-> error, pr_url |-> ""]
Success(pr_url) == [status |-> "success", error |-> "", pr_url |-> pr_url]

\* present: the patch script's guard finds the topic in the cloned file;
\* dirty: the working copy differs from the clone; log: the commands run
IdleTask ==
    [pc |-> "idle", present |-> FALSE, dirty |-> FALSE, timed_out |-> FALSE,
     dag_file |-> FALSE, script_failed |-> FALSE, committed |-> FALSE,
     pushed |-> FALSE, pr_created |-> FALSE, log |-> <<>>]

\* the task's record after the command cmd came back with r
Ran(t, cmd, r) ==
    [task[t] EXCEPT !.timed_out = @ \/ (r = "timeout"), !.log = Append(@, cmd)]

Goto(t, rec, pc) ==
    /\ task' = [task EXCEPT ![t] = [rec EXCEPT !.pc = pc]]
    /\ UNCHANGED future

\* a variant in which a task that fails ends the tasks still running
ReturnAndCancel(t, rec, result) ==
    /\ task' = [u \in Steps |->
                  IF u = t THEN [rec EXCEPT !.pc = "returned"]
                  ELSE IF result.status = "failed"
                          /\ task[u].pc \notin {"idle", "returned"}
                  THEN [task[u] EXCEPT !.pc = "returned"]
                  ELSE task[u]]
    /\ future' = [u \in Steps |->
                    IF u = t THEN result
                    ELSE IF result.status = "failed"
                            /\ task[u].pc \notin {"idle", "returned"}
                    THEN Failed("cancelled")
                    ELSE future[u]]

\* the function returns: its future holds the record
Return(t, rec, result) ==
    /\ task' = [task EXCEPT ![t] = [rec EXCEPT !.pc = "returned"]]
    /\ future' = [future EXCEPT ![t] = result]

At(t, pc) == main_pc = "collecting" /\ task[t].pc = pc

\* git clone
Clone(t) ==
    /\ At(t, "clone")
    /\ \E r \in CmdOutcomes :
          IF r # "ok" THEN Return(t, Ran(t, "clone", r), Failed("Clone failed"))
          ELSE Goto(t, Ran(t, "clone", r), "checkout")
    /\ UNCHANGED <<pvars, gvars, args, main_pc, results, notifications, exit_code>>

\* git config (twice) and git checkout of the default branch: the return
\* codes are not looked at
Checkout(t) ==
    /\ At(t, "checkout")
    /\ \E r \in CmdOutcomes :
          Goto(t, Ran(t, "checkout", r), IF t = "data-airflow" THEN "find_dag" ELSE "branch")
    /\ UNCHANGED <<pvars, gvars, args, main_pc, results, notifications, exit_code>>

\* create_data_airflow_pr: grep -r StreamTaskConfig dags/
FindDag(t) ==
    /\ At(t, "find_dag")
    /\ \E r \in CmdOutcomes, out \in BOOLEAN :
          Goto(t, [Ran(t, "grep", r) EXCEPT !.dag_file = (r = "ok" /\ out)], "branch")
    /\ UNCHANGED <<pvars, gvars, args, main_pc, results, notifications, exit_code>>

\* git checkout -b; create_data_airflow_pr then returns when it has no DAG file
Branch(t) ==
    /\ At(t, "branch")
    /\ \E r \in CmdOutcomes :
          IF r # "ok" THEN Return(t, Ran(t, "branch", r), Failed("Branch creation failed"))
          ELSE IF t = "data-airflow"
          THEN (IF task[t].dag_file THEN Goto(t, Ran(t, "branch", r), "script")
                ELSE Return(t, Ran(t, "branch", r), Failed("DAG file not found")))
          ELSE Goto(t, Ran(t, "branch", r), "locate")
    /\ UNCHANGED <<pvars, gvars, args, main_pc, results, notifications, exit_code>>

\* create_helm_apps_pr: is there a values.yaml; create_dbt_bootstrap_pr: the
\* bootstrap script is copied into the working copy, or is already there
Locate(t) ==
    /\ At(t, "locate")
    /\ IF t = "helm-apps"
       THEN \E exists \in BOOLEAN :
              IF exists THEN Goto(t, task[t], "script")
              ELSE Return(t, task[t], Failed("Could not find values.yaml"))
       ELSE \E found \in {"copied", "copied_same", "in_repo", "missing"} :
              IF found = "missing"
              THEN Return(t, task[t], Failed("Bootstrap script not found in automation repo"))
              ELSE Goto(t, [task[t] EXCEPT !.dirty = (found = "copied")], "script")
    /\ UNCHANGED <<pvars, gvars, args, main_pc, results, notifications, exit_code>>

\* how the patch script can end: a script that fails has written nothing,
\* and so has one whose guard finds the topic
ScriptOutcomes(present) ==
    {o \in [r : CmdOutcomes, changed : BOOLEAN] :
        (o.r # "ok" \/ present) => ~o.changed}

\* python3 <patch script>
Script(t) ==
    /\ At(t, "script")
    /\ \E o \in ScriptOutcomes(task[t].present) :
          IF t = "dbt" /\ o.r # "ok"
          THEN Return(t, [Ran(t, "script", o.r) EXCEPT !.script_failed = TRUE],
                      Failed("Bootstrap failed"))
          ELSE Goto(t, [Ran(t, "script", o.r) EXCEPT !.dirty = @ \/ o.changed,
                                                     !.script_failed = (o.r # "ok")],
                    "status")
    /\ UNCHANGED <<pvars, gvars, args, main_pc, results, notifications, exit_code>>

\* git status --porcelain: only its output is looked at
Status(t) ==
    /\ At(t, "status")
    /\ \E r \in CmdOutcomes :
          IF r = "ok" /\ task[t].dirty THEN Goto(t, Ran(t, "status", r), "add")
          ELSE Return(t, Ran(t, "status", r),
                      NoChanges(IF t = "dbt" THEN "Topic already exists" ELSE ""))
    /\ UNCHANGED <<pvars, gvars, args, main_pc, results, notifications, exit_code>>

\* git add .
Add(t) ==
    /\ At(t, "add")
    /\ \E r \in CmdOutcomes : Goto(t, Ran(t, "add", r), "commit")
    /\ UNCHANGED <<pvars, gvars, args, main_pc, results, notifications, exit_code>>

\* git commit
Commit(t) ==
    /\ At(t, "commit")
    /\ \E r \in CmdOutcomes :
          IF r # "ok" THEN Return(t, Ran(t, "commit", r), Failed("Commit failed"))
          ELSE Goto(t, [Ran(t, "commit", r) EXCEPT !.committed = TRUE], "push")
    /\ UNCHANGED <<pvars, gvars, args, main_pc, results, notifications, exit_code>>

\* a variant that does not look at the return code of git push
PushUnchecked(t) ==
    /\ At(t, "push")
    /\ \E r \in CmdOutcomes :
          Goto(t, [Ran(t, "push", r) EXCEPT !.pushed = (r = "ok")], "verify")
    /\ UNCHANGED <<pvars, gvars, args, main_pc, results, notifications, exit_code>>

\* git push
Push(t) ==
    /\ At(t, "push")
    /\ \E r \in CmdOutcomes :
          IF r # "ok" THEN Return(t, Ran(t, "push", r), Failed("Push failed"))
          ELSE Goto(t, [Ran(t, "push", r) EXCEPT !.pushed = TRUE], "verify")
    /\ UNCHANGED <<pvars, gvars, args, main_pc, results, notifications, exit_code>>

\* git ls-remote: a missing branch is only warned about
Verify(t) ==
    /\ At(t, "verify")
    /\ \E r \in CmdOutcomes : Goto(t, Ran(t, "ls-remote", r), "pr")
    /\ UNCHANGED <<pvars, gvars, args, main_pc, results, notifications, exit_code>>

\* gh pr create; pr_url is what it printed
CreatePR(t) ==
    /\ At(t, "pr")
    /\ \E r \in CmdOutcomes :
          IF r # "ok" THEN Return(t, Ran(t, "pr", r), Failed("PR creation failed"))
          ELSE \E pr_url \in {"", "https://github.com/org/repo/pull/1"} :
                 Return(t, [Ran(t, "pr", r) EXCEPT !.pr_created = TRUE],
                        Success(pr_url))
    /\ UNCHANGED <<pvars, gvars, args, main_pc, results, notifications, exit_code>>

\* except Exception as e
Raise(t) ==
    /\ main_pc = "collecting"
    /\ task[t].pc \notin {"idle", "returned"}
    /\ Return(t, task[t], Failed("exception"))
    /\ UNCHANGED <<pvars, gvars, args, main_pc, results, notifications, exit_code>>

\* lines 807-812: executor.submit for each of futures_to_create
Submit ==
    /\ main_pc = "start"
    /\ main_pc' = "collecting"
    /\ \E present \in [Submitted(args.sink_type) -> BOOLEAN] :
          task' = [t \in Steps |->
                     IF t \in Submitted(args.sink_type)
                     THEN [IdleTask EXCEPT !.pc = "clone", !.present = present[t]]
                     ELSE IdleTask]
    /\ UNCHANGED <<pvars, gvars, args, future, results, notifications, exit_code>>

\* lines 816-827: as_completed hands over one finished future
Collect(t) ==
    /\ main_pc = "collecting"
    /\ task[t].pc = "returned"
    /\ results[t] = NoResult
    /\ results' = [results EXCEPT ![t] = future[t]]
    /\ UNCHANGED <<pvars, gvars, args, main_pc, task, future, notifications, exit_code>>

\* a variant that lets the main thread go on after the first future
SomeCollected(sink_type, res) ==
    \E t \in Submitted(sink_type) : res[t] # NoResult

\* as_completed has handed over every future and the pool has shut down
AllCollected(sink_type, res) ==
    \A t \in Submitted(sink_type) : res[t] # NoResult

\* a variant that leaves the steps that were not submitted out of the map
with_submitted_only(sink_type, res) == res

\* lines 829-843
with_skipped(sink_type, res) ==
    IF sink_type # "realtime"
    THEN [res EXCEPT !["data-airflow"] = Skipped("Airflow DAG not needed")]
    ELSE [res EXCEPT !["dbt"] = Skipped("Step 3 temporarily disabled")]

\* send_slack_notification, lines 660-728: what the message shows per step
slack_blocks(res) ==
    [t \in {u \in Steps : res[u] # NoResult} |->
        IF res[t].status = "success" /\ res[t].pr_url # "" THEN "link"
        ELSE IF res[t].status = "skipped" THEN "skipped"
        ELSE IF res[t].status = "no_changes" THEN "no_changes"
        ELSE "failed"]

\* lines 829-883: the skipped steps, the summary, the notification
Join ==
    /\ main_pc = "collecting"
    /\ AllCollected(args.sink_type, results)
    /\ results' = with_skipped(args.sink_type, results)
    /\ \E delivered \in BOOLEAN :
          notifications' = Append(notifications,
                                  [results |-> results', blocks |-> slack_blocks(results'),
                                   delivered |-> delivered])
    /\ main_pc' = "returned"
    /\ UNCHANGED <<pvars, gvars, args, task, future, exit_code>>

\* a variant that counts every record that is not a success or a skip
unsuccessful_count(res) ==
    Cardinality({t \in Steps : res[t].status \in {"failed", "no_changes"}})

\* main, line 964
failed_count(res) == Cardinality({t \in Steps : res[t].status = "failed"})

\* main, lines 963-965
Exit ==
    /\ main_pc = "returned"
    /\ exit_code' = (IF failed_count(results) = 0 THEN 0 ELSE 1)
    /\ main_pc' = "exited"
    /\ UNCHANGED <<pvars, gvars, args, task, future, results, notifications>>

(***************************************************************************)
(* The names derived from a topic and from the two enumerations.           *)
(***************************************************************************)
\* step2_data_airflow.py: topic.replace('.', '__').replace('-', '_') + '__raw'
generate_table_name_airflow(topic) ==
    replace_chars(topic) \o <<"_", "_", "r", "a", "w">>

\* step3_dbt_realtime_sink.py: the same expression
generate_table_name_dbt(topic) ==
    replace_chars(topic) \o <<"_", "_", "r", "a", "w">>

\* ParallelPRCreator.__init__: self.table_name
creator_table_name(topic) ==
    replace_chars(topic) \o <<"_", "_", "r", "a", "w">>

NoNames == [derived |-> FALSE]

\* what every script and the orchestrator derive from their arguments
derive_names(a) ==
    [derived |-> TRUE,
     connector |-> get_connector_name(a.value_type, a.sink_type),
     helm |-> generate_table_name(a.topic),
     airflow |-> generate_table_name_airflow(a.topic),
     dbt |-> generate_table_name_dbt(a.topic),
     s3 |-> topic_table_of(a.topic),
     creator |-> creator_table_name(a.topic)]

GenIdle == [names |-> NoNames, model |-> [ran |-> FALSE], cast |-> [inferred |-> FALSE]]

\* the words topics are made of
Vocabulary ==
    {<<"a", "u", "d", "i", "t">>, <<"d", "e", "v", "i", "c", "e">>,
     <<"t", "h", "r", "e", "a", "t">>, <<"A", "u", "d", "i", "t">>, <<"v", "1">>}

\* topics of one word, or of two words joined by '.' or '-'
GenTopics ==
    Vocabulary
    \cup {w[1] \o <<w[3]>> \o w[2] : w \in Vocabulary \X Vocabulary \X {".", "-"}}

\* the derivations are called with a topic, a value type and a sink type;
\* "avro" and "kafka" stand for the values outside the two enumerations
DeriveNames ==
    /\ surface = "gen"
    /\ ~gen.names.derived
    /\ gen' = [gen EXCEPT !.names = derive_names(args)]
    /\ UNCHANGED <<pvars, args, ovars>>

(***************************************************************************)
(* Schema discovery and model generation of the dbt realtime script.       *)
(* A sampled record_content is a text that does not parse, a JSON value    *)
(* that is not an object, or an object: its fields in order, each with the *)
(* Python type of its value and, for a list, what its first item is.       *)
(***************************************************************************)
MaxRows == 2        \* rows the sampling query returns

None == "None"

SampleRecords ==
    {[kind |-> "unparsable", fields |-> <<>>],
     [kind |-> "scalar", fields |-> <<>>],
     [kind |-> "dict", fields |->
        <<[name |-> "id", type |-> "str", items |-> None, nested |-> <<>>],
          [name |-> "tags", type |-> "list", items |-> "empty", nested |-> <<>>]>>],
     [kind |-> "dict", fields |->
        <<[name |-> "tags", type |-> "list", items |-> "str", nested |-> <<>>],
          [name |-> "things", type |-> "list", items |-> "dict",
           nested |-> <<[name |-> "kind", type |-> "str"]>>]>>],
     [kind |-> "dict", fields |->
        <<[name |-> "events", type |-> "list", items |-> "dict",
           nested |-> <<[name |-> "override_id", type |-> "str"],
                        [name |-> "name", type |-> "str"]>>],
          [name |-> "id", type |-> "str", items |-> None, nested |-> <<>>]>>],
     [kind |-> "dict", fields |->
        <<[name |-> "OVERRIDE_ID", type |-> "str", items |-> None, nested |-> <<>>],
          [name |-> "timestamp", type |-> "str", items |-> None, nested |-> <<>>]>>]}

RECURSIVE SeqsUpTo(_, _)
SeqsUpTo(S, n) ==
    IF n = 0 THEN {<<>>}
    ELSE SeqsUpTo(S, n - 1)
         \cup {Append(q, x) : q \in {r \in SeqsUpTo(S, n - 1) : Len(r) = n - 1}, x \in S}

SampleRows == SeqsUpTo(SampleRecords, MaxRows)

\* str.lower() on a topic, character by character
lower(s) ==
    LET upper == <<"A", "B", "C", "D", "E", "F", "G", "H", "I", "J", "K", "L", "M",
                   "N", "O", "P", "Q", "R", "S", "T", "U", "V", "W", "X", "Y", "Z">>
        small == <<"a", "b", "c", "d", "e", "f", "g", "h", "i", "j", "k", "l", "m",
                   "n", "o", "p", "q", "r", "s", "t", "u", "v", "w", "x", "y", "z">>
    IN  [i \in 1..Len(s) |->
            IF \E k \in 1..26 : upper[k] = s[i]
            THEN small[CHOOSE k \in 1..26 : upper[k] = s[i]]
            ELSE s[i]]

\* str.lower() on the field names of the samples and of --fields
lower_name(f) == IF f = "OVERRIDE_ID" THEN "override_id" ELSE f

\* lines 127-141: the (name, value) pairs of the records that are objects
RECURSIVE record_fields(_)
record_fields(rows) ==
    IF rows = <<>> THEN <<>>
    ELSE (IF Head(rows).kind = "dict" THEN Head(rows).fields ELSE <<>>)
         \o record_fields(Tail(rows))

\* the keys of a dict, in the order they were first inserted
RECURSIVE first_seen(_)
first_seen(fs) ==
    IF fs = <<>> THEN <<>>
    ELSE IF \E i \in 1..(Len(fs) - 1) : fs[i].name = fs[Len(fs)].name
         THEN first_seen(SubSeq(fs, 1, Len(fs) - 1))
         ELSE Append(first_seen(SubSeq(fs, 1, Len(fs) - 1)), fs[Len(fs)].name)

\* sorted(keys, key=count, reverse=True): descending, ties in key order
RECURSIVE by_count(_, _, _)
by_count(fs, keys, c) ==
    IF c = 0 THEN <<>>
    ELSE SelectSeq(keys, LAMBDA k : Cardinality({i \in 1..Len(fs) : fs[i].name = k}) = c)
         \o by_count(fs, keys, c - 1)

sorted_fields(fs) == by_count(fs, first_seen(fs), Len(fs))

\* field_types, nested_field_types[a]: a dict of sets of type names
types_of(fs) ==
    [order |-> first_seen(fs),
     of |-> [n \in {fs[i].name : i \in 1..Len(fs)} |->
                {fs[i].type : i \in {j \in 1..Len(fs) : fs[j].name = n}}]]

\* no types were discovered
NoTypes == [order |-> <<>>, of |-> <<>>]

\* lines 133-134
array_fields(fs) ==
    {fs[i].name : i \in {j \in 1..Len(fs) : fs[j].type = "list" /\ fs[j].items # "empty"}}

\* lines 136-141: the fields of the first items that are objects
RECURSIVE nested_fields(_, _)
nested_fields(fs, a) ==
    IF fs = <<>> THEN <<>>
    ELSE (IF Head(fs).name = a /\ Head(fs).type = "list" /\ Head(fs).items = "dict"
          THEN Head(fs).nested ELSE <<>>)
         \o nested_fields(Tail(fs), a)

priority_arrays == <<"applications", "events", "items", "records", "data", "results">>

\* lines 155-164: the first priority name among the array fields; without
\* one, list(array_fields)[0], whichever element the set's iteration starts
\* with
primary_arrays(fs) ==
    IF \E i \in 1..Len(priority_arrays) : priority_arrays[i] \in array_fields(fs)
    THEN {priority_arrays[Min({i \in 1..Len(priority_arrays) :
                                 priority_arrays[i] \in array_fields(fs)})]}
    ELSE IF array_fields(fs) # {} THEN array_fields(fs)
    ELSE {None}

NoDiscovery == [found |-> FALSE]

\* None when the import or the connection fails or no record was counted,
\* else the nested fields of the primary array, else the top-level fields
discover_schema_from_snowflake(conn, rows, primary_array) ==
    IF conn # "ok" THEN NoDiscovery
    ELSE IF SelectSeq(rows, LAMBDA r : r.kind # "unparsable") = <<>> THEN NoDiscovery
    ELSE IF /\ primary_array # None
            /\ nested_fields(record_fields(rows), primary_array) # <<>>
    THEN [found |-> TRUE,
          fields |-> sorted_fields(nested_fields(record_fields(rows), primary_array)),
          types |-> types_of(nested_fields(record_fields(rows), primary_array)),
          array |-> primary_array]
    ELSE [found |-> TRUE, fields |-> sorted_fields(record_fields(rows)),
          types |-> types_of(record_fields(rows)), array |-> None]

infer_unique_key_from_fields(field_list) ==
    IF field_list = <<>> THEN [found |-> FALSE]
    ELSE IF \E i \in 1..Len(field_list) : lower_name(field_list[i]) = "override_id"
    THEN [found |-> TRUE, unique_key |-> "override_id__sk", base_field |-> "override_id"]
    ELSE [found |-> FALSE]

patterns ==
    <<[pattern |-> <<"d", "e", "v", "i", "c", "e">>, key_name |-> "device_id__sk"],
      [pattern |-> <<"f", "e", "e", "d", "b", "a", "c", "k">>, key_name |-> "feedback_id__sk"],
      [pattern |-> <<"a", "u", "d", "i", "t">>, key_name |-> "audit_id__sk"],
      [pattern |-> <<"c", "o", "m", "p", "l", "i", "a", "n", "c", "e">>,
       key_name |-> "compliance_id__sk"],
      [pattern |-> <<"v", "u", "l", "n", "e", "r", "a", "b", "i", "l", "i", "t", "y">>,
       key_name |-> "vulnerability_id__sk"],
      [pattern |-> <<"t", "h", "r", "e", "a", "t">>, key_name |-> "threat_id__sk"],
      [pattern |-> <<"a", "g", "e", "n", "t">>, key_name |-> "agent_id__sk"],
      [pattern |-> <<"e", "x", "p", "e", "r", "i", "e", "n", "c", "e">>,
       key_name |-> "experience_id__sk"]>>

infer_unique_key_from_topic(topic) ==
    LET hits == {i \in 1..Len(patterns) : Contains(lower(topic), patterns[i].pattern)}
    IN  IF hits = {} THEN "event_id__sk" ELSE patterns[Min(hits)].key_name

\* the characters of the field names of the samples and of --fields
spell(f) ==
    CASE f = "id" -> <<"i", "d">>
      [] f = "tags" -> <<"t", "a", "g", "s">>
      [] f = "things" -> <<"t", "h", "i", "n", "g", "s">>
      [] f = "kind" -> <<"k", "i", "n", "d">>
      [] f = "events" -> <<"e", "v", "e", "n", "t", "s">>
      [] f = "override_id" -> <<"o", "v", "e", "r", "r", "i", "d", "e", "_", "i", "d">>
      [] f = "name" -> <<"n", "a", "m", "e">>
      [] f = "OVERRIDE_ID" -> <<"O", "V", "E", "R", "R", "I", "D", "E", "_", "I", "D">>
      [] f = "timestamp" -> <<"t", "i", "m", "e", "s", "t", "a", "m", "p">>
      [] f = "user_id" -> <<"u", "s", "e", "r", "_", "i", "d">>
      [] f = "event_type" -> <<"e", "v", "e", "n", "t", "_", "t", "y", "p", "e">>

\* an inference that looks at the observed types only
infer_from_types(field_name, python_types) ==
    IF "dict" \in python_types \/ "list" \in python_types THEN "variant"
    ELSE IF "int" \in python_types THEN "to_number"
    ELSE IF "float" \in python_types THEN "to_double"
    ELSE "to_varchar"

\* lines 284-320: the cast function for a field, from its name and the
\* Python types observed for it
infer_snowflake_type(field_name, python_types) ==
    LET field_lower == lower(field_name)
        any(words) == \E i \in 1..Len(words) : Contains(field_lower, words[i])
    IN  IF any(<<<<"t", "i", "m", "e", "s", "t", "a", "m", "p">>,
                  <<"t", "i", "m", "e">>, <<"d", "a", "t", "e">>,
                  <<"c", "r", "e", "a", "t", "e", "d">>,
                  <<"u", "p", "d", "a", "t", "e", "d">>,
                  <<"m", "o", "d", "i", "f", "i", "e", "d">>>>)
        THEN "to_timestamp_ntz"
        ELSE IF any(<<<<"i", "s", "_">>, <<"h", "a", "s", "_">>,
                  <<"e", "n", "a", "b", "l", "e", "d">>,
                  <<"d", "i", "s", "a", "b", "l", "e", "d">>,
                  <<"a", "c", "t", "i", "v", "e">>>>)
        THEN "to_boolean"
        ELSE IF /\ any(<<<<"c", "o", "u", "n", "t">>, <<"a", "m", "o", "u", "n", "t">>,
                  <<"t", "o", "t", "a", "l">>, <<"s", "c", "o", "r", "e">>,
                  <<"r", "a", "t", "i", "n", "g">>,
                  <<"v", "e", "r", "s", "i", "o", "n">>>>)
                /\ ("int" \in python_types \/ "float" \in python_types)
        THEN (IF "int" \in python_types THEN "to_number" ELSE "to_double")
        ELSE IF \/ (Len(field_lower) >= 3
                    /\ SubSeq(field_lower, Len(field_lower) - 2, Len(field_lower))
                         = <<"_", "i", "d">>)
                \/ field_lower = <<"i", "d">>
        THEN "to_varchar"
        ELSE IF "dict" \in python_types \/ "list" \in python_types
        THEN "variant"
        ELSE "to_varchar"

\* the words field names are made of
CastWords ==
    {<<"t", "i", "m", "e">>, <<"D", "a", "t", "e">>, <<"i", "s">>, <<"h", "a", "s">>,
     <<"a", "c", "t", "i", "v", "e">>, <<"c", "o", "u", "n", "t">>, <<"i", "d">>,
     <<"n", "a", "m", "e">>}

\* infer_snowflake_type called with a field name of one word, or of two words
\* joined by '_', and a non-empty set of observed Python types
InferType ==
    /\ surface = "cast"
    /\ ~gen.cast.inferred
    /\ \E field_name \in CastWords
                         \cup {w[1] \o <<"_">> \o w[2] : w \in CastWords \X CastWords},
          python_types \in SUBSET {"str", "int", "float", "dict"} \ {{}} :
          gen' = [gen EXCEPT !.cast =
                    [inferred |-> TRUE, field_name |-> field_name,
                     python_types |-> python_types,
                     cast_func |-> infer_snowflake_type(field_name, python_types)]]
    /\ UNCHANGED <<pvars, args, ovars>>

\* the name of the field to flatten, None for (None, False)
detect_array_field(field_types) ==
    LET priority == {i \in 1..Len(priority_arrays) :
                        /\ priority_arrays[i] \in DOMAIN field_types.of
                        /\ "list" \in field_types.of[priority_arrays[i]]}
        listed == {k \in 1..Len(field_types.order) :
                        "list" \in field_types.of[field_types.order[k]]}
    IN  IF field_types.order = <<>> THEN None
        ELSE IF priority # {} THEN priority_arrays[Min(priority)]
        ELSE IF listed # {} THEN field_types.order[Min(listed)]
        ELSE None

\* lines 391-505: the key, the surrogate key's two inputs, the field casts in
\* order (each with the object it reads from, its cast function and whether
\* its alias is quoted), the from clause, and the columns of the select list
\* in order; uses_flatten is true exactly when array_field is a field name
render_model(field_list, topic, field_types, base_id_field, array_field, extraction_source) ==
    LET cast_func(f) ==
            IF f \in DOMAIN field_types.of
            THEN infer_snowflake_type(spell(f), field_types.of[f])
            ELSE "to_varchar"
        looped == SelectSeq(field_list, LAMBDA f :
                    /\ ~(array_field # None /\ f = array_field)
                    /\ ~(base_id_field # None /\ lower_name(f) = base_id_field))
        unique_key == IF base_id_field # None THEN "override_id__sk"
                      ELSE infer_unique_key_from_topic(topic)
        field_extractions ==
            (IF base_id_field # None
             THEN <<[field |-> base_id_field, source |-> extraction_source,
                     cast |-> cast_func(base_id_field), quoted |-> FALSE]>>
             ELSE <<>>)
            \o [i \in 1..Len(looped) |->
                  [field |-> looped[i], source |-> extraction_source,
                   cast |-> cast_func(looped[i]),
                   quoted |-> lower_name(looped[i]) \in
                       {"name", "comment", "order", "group", "user", "version"}]]
    IN  [unique_key |-> unique_key,
         base_id_field |-> base_id_field,
         surrogate_key |->
            <<<<"meta__kafka_headers", "ce_id">>,
              IF base_id_field # None THEN <<extraction_source, base_id_field>>
              ELSE <<"", "meta__partition_offset_location__sk">>>>,
         uses_flatten |-> array_field # None,
         array_field |-> array_field,
         extraction_source |-> extraction_source,
         field_extractions |-> field_extractions,
         select |->
            <<unique_key>>
            \o [i \in 1..Len(field_extractions) |-> field_extractions[i].field]
            \o <<"meta__kafka_topic", "meta__partition", "meta__offset",
                 "meta__kafka_location", "meta__partition_offset_location__sk",
                 "meta__kafka_timestamp", "meta__kafka_headers", "meta__kafka_key",
                 "meta__kafka_key__sk", "meta__is_tombstone", "meta__materialized_at">>,
         flatten_input |-> array_field]

\* lines 370-391: the base id field, the array field and the extraction
\* source the model is rendered with
model_with(fields, topic, field_types, array_field) ==
    render_model(fields, topic, field_types,
                 IF \E i \in 1..Len(fields) : lower_name(fields[i]) = "override_id"
                 THEN "override_id" ELSE None,
                 array_field,
                 IF array_field # None THEN "app.value" ELSE "record_content")

generate_dbt_model(fields, topic, field_types, flatten_array) ==
    model_with(fields, topic, field_types,
               IF flatten_array = None /\ field_types.order # <<>>
               THEN detect_array_field(field_types)
               ELSE flatten_array)

default_fields == <<"id", "timestamp", "user_id", "event_type">>

\* main, line 806: discovery is asked for, or no fields were given and an
\* account is configured
discovery_attempted(fields, auto_discover, env) ==
    auto_discover \/ (~fields.given /\ env # "none")

\* a run that keeps whatever fields it was given when discovery fails
fields_plan_keep(fields, auto_discover, env, flatten_arg, d) ==
    [fields_to_use |-> IF discovery_attempted(fields, auto_discover, env) /\ d.found
                       THEN d.fields
                       ELSE IF fields.given THEN fields.list ELSE default_fields,
     field_types |-> IF discovery_attempted(fields, auto_discover, env) /\ d.found
                     THEN d.types ELSE NoTypes,
     flatten_array |-> flatten_arg]

\* main, lines 802-867: the fields, the types and the array the model is
\* generated from; d is what discovery returned
fields_plan(fields, auto_discover, env, flatten_arg, d) ==
    IF discovery_attempted(fields, auto_discover, env)
    THEN IF env # "complete"
         THEN [fields_to_use |-> default_fields, field_types |-> NoTypes,
               flatten_array |-> flatten_arg]
         ELSE IF d.found
         THEN [fields_to_use |-> d.fields, field_types |-> d.types,
               flatten_array |-> IF d.array # None THEN d.array ELSE flatten_arg]
         ELSE [fields_to_use |-> default_fields, field_types |-> NoTypes,
               flatten_array |-> flatten_arg]
    ELSE [fields_to_use |-> IF fields.given THEN fields.list ELSE default_fields,
          field_types |-> NoTypes, flatten_array |-> flatten_arg]

\* main, lines 875-890: the key the run reports
detected_unique_key(fields_to_use, topic) ==
    IF infer_unique_key_from_fields(fields_to_use).found
    THEN infer_unique_key_from_fields(fields_to_use).unique_key
    ELSE infer_unique_key_from_topic(topic)

\* main of step3_dbt_realtime_sink.py from the names to the model file (the
\* sources file is DbtAddSource): the command line, the Snowflake settings,
\* whether the connection works, the rows it returns and whether the model
\* file is already there are the run's inputs
DbtModel ==
    /\ surface = "model"
    /\ ~gen.model.ran
    /\ \E fields \in {[given |-> FALSE, list |-> <<>>],
                      [given |-> TRUE, list |-> <<"id", "name">>],
                      [given |-> TRUE, list |-> <<"id", "override_id">>]},
          auto_discover \in BOOLEAN, env \in {"none", "incomplete", "complete"},
          flatten_arg \in {None, "events"}, exists \in BOOLEAN :
       \E conn \in (IF discovery_attempted(fields, auto_discover, env) /\ env = "complete"
                    THEN {"not_installed", "connect_failed", "ok"} ELSE {"unused"}) :
       \E rows \in (IF conn = "ok" THEN SampleRows ELSE {<<>>}) :
       \E primary_array \in primary_arrays(record_fields(rows)) :
       \E d \in {discover_schema_from_snowflake(conn, rows, primary_array)} :
       \E plan \in {fields_plan(fields, auto_discover, env, flatten_arg, d)} :
          gen' = [gen EXCEPT !.model =
                    [ran |-> TRUE,
                     fields |-> fields,
                     auto_discover |-> auto_discover,
                     env |-> env,
                     flatten_arg |-> flatten_arg,
                     conn |-> conn,
                     rows |-> rows,
                     discovery_result |-> d,
                     fields_to_use |-> plan.fields_to_use,
                     field_types |-> plan.field_types,
                     flatten_array |-> plan.flatten_array,
                     detected_unique_key |->
                        detected_unique_key(plan.fields_to_use, args.topic),
                     model_created |-> ~exists,
                     model_sql |-> IF exists THEN [unique_key |-> None]
                                   ELSE generate_dbt_model(plan.fields_to_use, args.topic,
                                                           plan.field_types,
                                                           plan.flatten_array)]]
    /\ UNCHANGED <<pvars, args, ovars>>

OrchIdle ==
    /\ task = [t \in Steps |-> IdleTask]
    /\ future = [t \in Steps |-> NoResult]
    /\ results = [t \in Steps |-> NoResult]
    /\ notifications = <<>>
    /\ exit_code = -1

Init ==
    /\ before = <<>>
    /\ outcome = NoOutcome
    /\ writes = 0
    /\ runs = 0
    /\ (HelmInit \/ AirflowInit \/ S3Init \/ DbtInit)
    /\ main_pc = "off"
    /\ OrchIdle
    /\ gen = GenIdle

Next == HelmMain \/ HelmInsert \/ AirflowMain \/ S3Main \/ DbtAddSource

Spec == Init /\ [][Next]_vars

\* the orchestrator started with its arguments read
InitOrch ==
    /\ surface = "orchestrator"
    /\ file_content = <<>>
    /\ before = <<>>
    /\ outcome = NoOutcome
    /\ writes = 0
    /\ runs = 0
    /\ models = {}
    /\ args \in [topic : {<<"a", ".", "b">>}, value_type : {"json", "protobuf"},
                 sink_type : {"realtime", "s3"}]
    /\ main_pc = "start"
    /\ OrchIdle
    /\ gen = GenIdle

NextOrch ==
    \/ Submit
    \/ \E t \in Steps : Clone(t)
    \/ \E t \in Steps : Checkout(t)
    \/ \E t \in Steps : FindDag(t)
    \/ \E t \in Steps : Branch(t)
    \/ \E t \in Steps : Locate(t)
    \/ \E t \in Steps : Script(t)
    \/ \E t \in Steps : Status(t)
    \/ \E t \in Steps : Add(t)
    \/ \E t \in Steps : Commit(t)
    \/ \E t \in Steps : Push(t)
    \/ \E t \in Steps : Verify(t)
    \/ \E t \in Steps : CreatePR(t)
    \/ \E t \in Steps : Raise(t)
    \/ \E t \in Steps : Collect(t)
    \/ Join
    \/ Exit

SpecOrch == InitOrch /\ [][NextOrch]_vars

\* a script started with its arguments read: the derivations take a topic, a
\* value type and a sink type; the dbt realtime script takes the topic, and
\* the orchestrator runs it for realtime sinks; the cast inference takes
\* neither
InitGen ==
    /\ file_content = <<>>
    /\ before = <<>>
    /\ outcome = NoOutcome
    /\ writes = 0
    /\ runs = 0
    /\ models = {}
    /\ \/ /\ surface = "gen"
          /\ args \in [topic : GenTopics, value_type : {"json", "protobuf", "avro"},
                       sink_type : {"realtime", "s3", "kafka"}]
       \/ /\ surface = "model"
          /\ args \in [topic : GenTopics, value_type : {"json"}, sink_type : {"realtime"}]
       \/ /\ surface = "cast"
          /\ args \in [topic : {<<"v", "1">>}, value_type : {"json"},
                       sink_type : {"realtime"}]
    /\ main_pc = "off"
    /\ OrchIdle
    /\ gen = GenIdle

NextGen == DeriveNames \/ DbtModel \/ InferType

SpecGen == InitGen /\ [][NextGen]_vars

(***************************************************************************)
(* Properties of the patch scripts (specification Spec).                   *)
(***************************************************************************)
ConnectorName == get_connector_name(args.value_type, args.sink_type)
TableName == generate_table_name(args.topic)

\* the last operation ran add_topic_to_file with success and file_content is
\* what it returned
Inserted ==
    /\ surface = "helm"
    /\ runs > 0
    /\ \/ outcome.op = "insert" /\ outcome.exit = 0
       \/ outcome.op = "main" /\ outcome.wrote

\* the topics section the insertion locates in the document it was given,
\* and in the document it returned
TopicsBefore == re_search(before, ConnectorName, "topics:", TRUE, 1)
TopicsAfter == re_search(file_content, ConnectorName, "topics:", TRUE, 1)
MapBefore == re_search(before, ConnectorName, "snowflake.topic2table.map:", TRUE, 1)
OldTopics == parse_entries(SubSeq(before, TopicsBefore.s, TopicsBefore.e))
NewTopics == parse_entries(SubSeq(file_content, TopicsAfter.s, TopicsAfter.e))

\* C1: after add_topic_to_file on a topics section of N entries in any
\* order, the section holds N+1 entries: the N original ones in their
\* original order, and the new topic immediately before the first original
\* entry greater than it, or at the end when none is greater.
C1_OrderPreserved ==
    Inserted =>
        /\ TopicsAfter.found
        /\ Len(NewTopics) = Len(OldTopics) + 1
        /\ \E p \in 0..Len(OldTopics) :
              /\ NewTopics = SubSeq(OldTopics, 1, p) \o <<args.topic>>
                             \o SubSeq(OldTopics, p + 1, Len(OldTopics))
              /\ \A q \in 1..p : ~StrLess(args.topic, OldTopics[q])
              /\ p < Len(OldTopics) => StrLess(args.topic, OldTopics[p + 1])

\* [b, a] + c gives [b, a, c]
C1_Witness ==
    /\ Inserted
    /\ OldTopics = <<<<"b">>, <<"a">>>>
    /\ args.topic = <<"c">>
    /\ NewTopics = <<<<"b">>, <<"a">>, <<"c">>>>

\* C2: whenever add_topic_to_file succeeds for (connector, topic),
\* check_topic_exists on the returned document with the same connector and
\* topic is true.
C2_GuardAfterInsert ==
    Inserted => check_topic_exists(file_content, ConnectorName, args.topic)

\* C3: add_topic_to_file called a second time with the same entry, on the
\* document its first call returned, leaves the document as it is.
C3_InsertIdempotent ==
    [][(/\ surface = "helm"
        /\ outcome.op = "insert" /\ outcome.exit = 0
        /\ runs' = runs + 1
        /\ outcome'.op = "insert")
       => file_content' = file_content]_vars

\* what the script's guard reports for the document on disk
GuardReports ==
    CASE surface = "helm" ->
            check_topic_exists(file_content, ConnectorName, args.topic)
      [] surface = "airflow" ->
            InContent(file_content, TableAttr(TableName))
      [] surface = "s3" ->
            file_content # <<>> /\ InContent(file_content, topic_table_of(args.topic))
      [] surface = "dbt" ->
            /\ kafka_realtime_source(file_content) # 0
            /\ source_table_name(TableName) \in existing_table_names(file_content)
      [] OTHER -> FALSE

\* C4: a run of a patch script whose guard reports the entry as present
\* ends as already-present (exit 0 for the scripts) and writes nothing: the
\* target document is not opened for writing, its content and the model
\* files stay as they are.
C4_GuardedRunWritesNothing ==
    [][(runs' = runs + 1 /\ outcome'.op \in {"main", "add_source"} /\ GuardReports)
       => /\ outcome'.guard
          /\ ~outcome'.wrote
          /\ writes' = writes
          /\ file_content' = file_content
          /\ models' = models
          /\ outcome'.op = "main" => outcome'.exit = 0]_vars

\* a second run of a script that finds the entry its first run wrote
C4_Witness ==
    /\ runs = 2
    /\ writes = 1
    /\ outcome.op = "main"
    /\ outcome.guard
    /\ file_content = before

\* the section the insertion would edit holds an entry whose key is the
\* candidate key
SectionHasKey ==
    CASE surface = "helm" ->
            /\ TopicsBefore.found
            /\ \E n \in 1..Len(OldTopics) : OldTopics[n] = args.topic
      [] surface = "airflow" ->
            LET match == configs_search(before)
                lines == configs_lines(before, match)
            IN  /\ match.found
                /\ \E n \in 1..Len(lines) :
                      HasTable(lines[n]) /\ TableOf(lines[n]) = TableName
      [] surface = "s3" ->
            \E i \in table_entries(before) :
                NameOf(before[i]) = topic_table_of(args.topic)
      [] OTHER -> FALSE

\* C5: for every patch script the guard reports already-present exactly
\* when the section the insertion would edit holds an entry whose key
\* equals the candidate key.
C5_GuardAgreesWithSection ==
    (runs > 0 /\ outcome.op = "main") => (outcome.guard <=> SectionHasKey)

\* the anchor of the section is in the document and the section holds no
\* entry
EmptySection ==
    CASE surface = "helm" ->
            LET occ == ConnectorAt(before, ConnectorName, 1)
                heads == {j \in 1..Len(before) :
                            /\ occ # {} /\ j >= FirstPos(occ)[1]
                            /\ \E q \in 1..Len(before[j].txt) :
                                  IsHeaderAt(before, j, q, "topics:")}
            IN  /\ heads # {}
                /\ \/ Min(heads) = Len(before)
                   \/ before[Min(heads) + 1].ind < 8
                   \/ before[Min(heads) + 1].txt = <<>>
      [] surface = "airflow" ->
            LET match == configs_search(before)
                lines == configs_lines(before, match)
            IN  /\ match.found
                /\ \A n \in 1..Len(lines) : IsBlank(lines[n])
      [] surface = "dbt" ->
            /\ kafka_realtime_source(before) # 0
            /\ yaml_tables(before, kafka_realtime_source(before)) = {}
      [] OTHER -> FALSE

\* the section holds the new entry and nothing else
OnlyNewEntry ==
    CASE surface = "helm" -> TopicsAfter.found /\ NewTopics = <<args.topic>>
      [] surface = "airflow" ->
            LET match == configs_search(file_content)
                lines == configs_lines(file_content, match)
            IN  /\ match.found
                /\ {TableOf(lines[n]) : n \in {m \in 1..Len(lines) : HasTable(lines[m])}}
                   = {TableName}
      [] surface = "dbt" ->
            /\ kafka_realtime_source(file_content) # 0
            /\ existing_table_names(file_content) = {source_table_name(TableName)}
      [] OTHER -> FALSE

\* C6: a patcher given a document whose anchor is present and whose section
\* holds zero entries locates the section and returns a document in which
\* the new entry is the section's only entry; it neither fails nor returns
\* the document unchanged.  (Runs with --dry-run are left aside.)
C6_EmptySectionInsertable ==
    (/\ runs > 0
     /\ EmptySection
     /\ outcome.op = "insert" \/ outcome.wrote \/ outcome.exit # 0)
    => (outcome.exit = 0 /\ file_content # before /\ OnlyNewEntry)

\* C7: rendering the parsed entries of the located topics section again
\* gives the text the section had: every existing entry line keeps its
\* indentation and its delimiter.
C7_RoundTrip ==
    Inserted =>
        format_entries(OldTopics) = SubSeq(before, TopicsBefore.s, TopicsBefore.e)

\* C8: for a realtime sink whose topics section is found and whose
\* snowflake.topic2table.map section is not, add_topic_to_file does not
\* abort: it returns the document with the topic in the topics section.
C8_MapMissingDegrades ==
    (/\ surface = "helm" /\ args.sink_type = "realtime"
     /\ runs > 0 /\ outcome.op = "insert"
     /\ TopicsBefore.found /\ ~MapBefore.found)
    => /\ outcome.exit = 0
       /\ TopicsAfter.found /\ TopicsAfter.s = TopicsBefore.s
       /\ \E n \in 1..Len(NewTopics) : NewTopics[n] = args.topic

C8_Witness ==
    /\ surface = "helm" /\ args.sink_type = "realtime"
    /\ runs = 1 /\ outcome.op = "insert"
    /\ TopicsBefore.found /\ ~MapBefore.found
    /\ outcome.exit = 0
    /\ OldTopics = <<<<"a">>, <<"b">>>>
    /\ NewTopics = <<<<"a">>, <<"a", ".", "b">>, <<"b">>>>

(***************************************************************************)
(* Properties of the orchestrator (specification SpecOrch).                *)
(***************************************************************************)
\* C9: the run exits nonzero exactly when some record of the outcome map
\* has status 'failed'; 'no_changes' and 'skipped' records do not make the
\* exit status nonzero.
C9_ExitStatus ==
    /\ main_pc # "exited" => exit_code = -1
    /\ main_pc = "exited" =>
          /\ exit_code \in {0, 1}
          /\ exit_code # 0 <=> \E t \in Steps : results[t].status = "failed"

\* a run without a failure that has a no-op and a skipped record
C9_Witness ==
    /\ main_pc = "exited"
    /\ exit_code = 0
    /\ \E t \in Steps : results[t].status = "no_changes"
    /\ \E t \in Steps : results[t].status = "skipped"

\* C10: the summary notification is posted at most once, never before every
\* submitted task has returned and its record is in the outcome map, and
\* exactly once by the time create_all_prs_parallel has returned.
C10_AggregationBarrier ==
    /\ Len(notifications) <= 1
    /\ main_pc \in {"start", "collecting"} => notifications = <<>>
    /\ main_pc \in {"returned", "exited"} => Len(notifications) = 1
    /\ \A n \in 1..Len(notifications) :
          \A t \in Submitted(args.sink_type) :
              /\ task[t].pc = "returned"
              /\ notifications[n].results[t] = future[t]
              /\ future[t] # NoResult

\* the two tasks ended differently and one notification carries both records
C10_Witness ==
    /\ Len(notifications) = 1
    /\ notifications[1].results["helm-apps"].status = "success"
    /\ notifications[1].results["data-airflow"].status = "failed"
    /\ notifications[1].results["dbt"].status = "skipped"

\* one external command, or the exception handler, of the function of step t
TaskStep(t) ==
    \/ Clone(t) \/ Checkout(t) \/ FindDag(t) \/ Branch(t) \/ Locate(t)
    \/ Script(t) \/ Status(t) \/ Add(t) \/ Commit(t) \/ Push(t) \/ Verify(t)
    \/ CreatePR(t) \/ Raise(t)

\* the step changes the function of step t or its future
TaskMoved(t) == task'[t] # task[t] \/ future'[t] # future[t]

\* C11: a failure inside one task becomes the 'failed' record of that
\* task only and does not leave the orchestrator: a step of one task changes
\* neither its sibling's state nor its sibling's record, nor the main
\* thread; a task that has returned has a record; and while one task has
\* failed, a sibling still under way can take its next step.
C11_FailureIsolation ==
    /\ [][main_pc = "collecting" =>
            \A t \in Steps : TaskMoved(t) =>
                /\ \A u \in Steps \ {t} : ~TaskMoved(u)
                /\ main_pc' = main_pc /\ results' = results
                /\ exit_code' = exit_code /\ notifications' = notifications
                /\ task'[t].pc = "returned" <=> future'[t] # NoResult]_vars
    /\ [](\A t \in Steps :
            /\ task[t].pc = "returned" <=> future[t] # NoResult
            /\ (main_pc = "collecting" /\ task[t].pc \notin {"idle", "returned"})
                   => ENABLED TaskStep(t))

\* the helm task failed at its clone and the airflow task, two commands
\* further on at that time, went on to open its pull request
C11_Witness ==
    /\ future["helm-apps"] = Failed("Clone failed")
    /\ task["helm-apps"].log = <<"clone">>
    /\ future["data-airflow"].status = "success"
    /\ task["data-airflow"].pr_created

Returned(t) == task[t].pc = "returned"

\* C12: whenever the patch script of a surface exits nonzero, the record of
\* that surface has status 'failed', never 'no_changes' or 'success'.
C12_ScriptFailureFatal ==
    \A t \in Steps :
        (Returned(t) /\ task[t].script_failed) => future[t].status = "failed"

NoDuplicates(seq) ==
    \A i \in 1..Len(seq) : \A j \in 1..Len(seq) : seq[i] = seq[j] => i = j

\* C13: whenever a command run by a task exceeded the timeout, the task's
\* terminal record is 'failed', whichever command it was, and no command is
\* run a second time.
C13_TimeoutFails ==
    \A t \in Steps :
        /\ NoDuplicates(task[t].log)
        /\ (Returned(t) /\ task[t].timed_out) => future[t].status = "failed"

\* create_all_prs_parallel has returned, the topic was in the file of every
\* submitted surface, no command timed out, no script and no task failed
RerunOfPresentTopic ==
    /\ main_pc \in {"returned", "exited"}
    /\ \A t \in Submitted(args.sink_type) :
          /\ task[t].present
          /\ ~task[t].timed_out /\ ~task[t].script_failed
          /\ future[t].status # "failed"

\* C14: a run for a topic that is already in all three surfaces gives three
\* 'no_changes' records, leaves every working copy unmodified and makes no
\* commit, no push and no pull request.
C14_RerunNoOp ==
    RerunOfPresentTopic =>
        /\ \A t \in Steps : results[t].status = "no_changes"
        /\ \A t \in Steps :
              /\ ~task[t].dirty
              /\ ~task[t].committed /\ ~task[t].pushed /\ ~task[t].pr_created

\* C15: for both sink types the map returned by create_all_prs_parallel
\* holds one record for each of helm-apps, data-airflow and dbt, each with a
\* status among success, no_changes, skipped and failed, and every 'failed'
\* record has a non-empty error.
C15_CompleteOutcomeMap ==
    main_pc \in {"returned", "exited"} =>
        /\ DOMAIN results = Steps
        /\ \A t \in Steps :
              /\ results[t] # NoResult
              /\ results[t].status \in {"success", "no_changes", "skipped", "failed"}
              /\ results[t].status = "failed" => results[t].error # ""
              /\ t \in Submitted(args.sink_type) => results[t] = future[t]
              /\ t \notin Submitted(args.sink_type) => results[t].status = "skipped"

\* an s3 run: helm-apps failed with its detail, data-airflow was skipped,
\* dbt found nothing to change
C15_Witness ==
    /\ main_pc = "returned"
    /\ args.sink_type = "s3"
    /\ results["helm-apps"] = Failed("Push failed")
    /\ results["data-airflow"].status = "skipped"
    /\ results["dbt"].status = "no_changes"

(***************************************************************************)
(* Properties of the derived names and of the generated dbt model          *)
(* (specification SpecGen).                                                *)
(***************************************************************************)
\* what the mapping puts in the place of one character of the topic
Image(c) ==
    IF c = "." THEN <<"_", "_">> ELSE IF c = "-" THEN <<"_">> ELSE <<c>>

RECURSIVE Concat(_)
Concat(seqs) == IF seqs = <<>> THEN <<>> ELSE Head(seqs) \o Concat(Tail(seqs))

\* the topic with every '.' replaced by '__' and every '-' by '_', then '__raw'
ExpectedTableName(topic) ==
    Concat([i \in 1..Len(topic) |-> Image(topic[i])]) \o <<"_", "_", "r", "a", "w">>

\* C16: generate_table_name(topic) is the topic with every '.' replaced by
\* '__' and every '-' by '_', followed by '__raw', and the orchestrator and
\* every patcher that derives a table name for the topic derive that same
\* name.
C16_TableName ==
    gen.names.derived =>
        /\ gen.names.helm = ExpectedTableName(args.topic)
        /\ gen.names.airflow = gen.names.helm
        /\ gen.names.dbt = gen.names.helm
        /\ gen.names.creator = gen.names.helm
        /\ gen.names.s3 = gen.names.helm

ConnectorNames ==
    {"snowflake-realtime-sink-json-v2", "snowflake-realtime-sink-protobuf-v2",
     "s3-sink-json-to-json", "s3-sink-protobuf-to-json"}

\* C17: get_connector_name(value_type, sink_type) never returns a connector
\* name when value_type is not json or protobuf, or sink_type is not
\* realtime or s3.
C17_ConnectorNameRejects ==
    (/\ gen.names.derived
     /\ \/ args.value_type \notin {"json", "protobuf"}
        \/ args.sink_type \notin {"realtime", "s3"})
    => gen.names.connector \notin ConnectorNames

\* the run asked Snowflake for sample records
Sampled ==
    /\ gen.model.ran
    /\ discovery_attempted(gen.model.fields, gen.model.auto_discover, gen.model.env)
    /\ gen.model.env = "complete"

\* the names the generated model casts, in order
CastFields ==
    [i \in 1..Len(gen.model.model_sql.field_extractions) |->
        gen.model.model_sql.field_extractions[i].field]

\* C18: when the sampling connection fails or no record is sampled (none
\* returned, or none that parses), discovery returns its failure value, the
\* run goes on with exactly the fields id, timestamp, user_id, event_type,
\* and the model it creates casts exactly those four.
C18_DiscoveryFallback ==
    (/\ Sampled
     /\ \/ gen.model.conn # "ok"
        \/ \A i \in 1..Len(gen.model.rows) : gen.model.rows[i].kind = "unparsable")
    => /\ gen.model.discovery_result = NoDiscovery
       /\ gen.model.fields_to_use = <<"id", "timestamp", "user_id", "event_type">>
       /\ gen.model.model_created
            => CastFields = <<"id", "timestamp", "user_id", "event_type">>

C18_Witness ==
    /\ Sampled
    /\ gen.model.conn = "ok"
    /\ gen.model.rows = <<>>
    /\ gen.model.fields.given
    /\ gen.model.model_created
    /\ CastFields = <<"id", "timestamp", "user_id", "event_type">>

\* the fixed table of (substring, key name) pairs, in order
KeyTable ==
    <<<<<<"d", "e", "v", "i", "c", "e">>, "device_id__sk">>,
      <<<<"f", "e", "e", "d", "b", "a", "c", "k">>, "feedback_id__sk">>,
      <<<<"a", "u", "d", "i", "t">>, "audit_id__sk">>,
      <<<<"c", "o", "m", "p", "l", "i", "a", "n", "c", "e">>, "compliance_id__sk">>,
      <<<<"v", "u", "l", "n", "e", "r", "a", "b", "i", "l", "i", "t", "y">>,
        "vulnerability_id__sk">>,
      <<<<"t", "h", "r", "e", "a", "t">>, "threat_id__sk">>,
      <<<<"a", "g", "e", "n", "t">>, "agent_id__sk">>,
      <<<<"e", "x", "p", "e", "r", "i", "e", "n", "c", "e">>, "experience_id__sk">>>>

Occurs(i) == Contains(lower(args.topic), KeyTable[i][1])

HasIdentifierField ==
    \E i \in 1..Len(gen.model.fields_to_use) : gen.model.fields_to_use[i] = "override_id"

\* C19: in a generated model, if override_id is in the field list the
\* unique key is override_id__sk, a surrogate of the envelope id and that
\* field; otherwise it is the key name of the first pair of the table whose
\* substring occurs in the lower-cased topic, or event_id__sk when none
\* occurs; a topic containing 'audit' without an identifier field gives
\* audit_id__sk.
C19_TwoTierKey ==
    (gen.model.ran /\ gen.model.model_created) =>
        /\ HasIdentifierField
             => /\ gen.model.model_sql.unique_key = "override_id__sk"
                /\ gen.model.model_sql.surrogate_key
                     = <<<<"meta__kafka_headers", "ce_id">>,
                         <<gen.model.model_sql.extraction_source, "override_id">>>>
        /\ ~HasIdentifierField
             => /\ \A i \in 1..Len(KeyTable) :
                      (Occurs(i) /\ \A j \in 1..(i - 1) : ~Occurs(j))
                      => gen.model.model_sql.unique_key = KeyTable[i][2]
                /\ (\A i \in 1..Len(KeyTable) : ~Occurs(i))
                      => gen.model.model_sql.unique_key = "event_id__sk"
                /\ Occurs(3) => gen.model.model_sql.unique_key = "audit_id__sk"

\* the rows in which the flattened field is a non-empty list of objects
ObservedAsObjects(a) ==
    {i \in 1..Len(gen.model.rows) :
        \E k \in 1..Len(gen.model.rows[i].fields) :
            /\ gen.model.rows[i].fields[k].name = a
            /\ gen.model.rows[i].fields[k].type = "list"
            /\ gen.model.rows[i].fields[k].items = "dict"}

\* the names profiled from the first elements of the field a
ElementFields(a) ==
    UNION {UNION {{gen.model.rows[i].fields[k].nested[n].name :
                      n \in 1..Len(gen.model.rows[i].fields[k].nested)} :
                  k \in {m \in 1..Len(gen.model.rows[i].fields) :
                            gen.model.rows[i].fields[m].name = a}} :
           i \in ObservedAsObjects(a)}

\* C20: a model generated from discovered fields that flattens an array
\* field no one named on the command line casts, from the unnested element,
\* only fields profiled from that array's elements, and the array was
\* observed as a non-empty list of objects.
C20_FlattenNested ==
    (/\ Sampled
     /\ gen.model.discovery_result # NoDiscovery
     /\ gen.model.flatten_arg = None
     /\ gen.model.model_created
     /\ gen.model.model_sql.uses_flatten)
    => /\ ObservedAsObjects(gen.model.model_sql.flatten_input) # {}
       /\ \A i \in 1..Len(gen.model.model_sql.field_extractions) :
             /\ gen.model.model_sql.field_extractions[i].source = "app.value"
             /\ gen.model.model_sql.field_extractions[i].field
                  \in ElementFields(gen.model.model_sql.flatten_input)

(***************************************************************************)
(* Properties of the cast inference and of the rendered model              *)
(* (specification SpecGen).                                                *)
(***************************************************************************)
TimestampWords ==
    {<<"t", "i", "m", "e", "s", "t", "a", "m", "p">>,
     <<"t", "i", "m", "e">>,
     <<"d", "a", "t", "e">>,
     <<"c", "r", "e", "a", "t", "e", "d">>,
     <<"u", "p", "d", "a", "t", "e", "d">>,
     <<"m", "o", "d", "i", "f", "i", "e", "d">>}

BooleanWords ==
    {<<"i", "s", "_">>,
     <<"h", "a", "s", "_">>,
     <<"e", "n", "a", "b", "l", "e", "d">>,
     <<"d", "i", "s", "a", "b", "l", "e", "d">>,
     <<"a", "c", "t", "i", "v", "e">>}

NumericWords ==
    {<<"c", "o", "u", "n", "t">>,
     <<"a", "m", "o", "u", "n", "t">>,
     <<"t", "o", "t", "a", "l">>,
     <<"s", "c", "o", "r", "e">>,
     <<"r", "a", "t", "i", "n", "g">>,
     <<"v", "e", "r", "s", "i", "o", "n">>}

\* the lower-cased field name contains one of the words
NameHas(words) == \E w \in words : Contains(lower(gen.cast.field_name), w)

NameIsId ==
    \/ lower(gen.cast.field_name) = <<"i", "d">>
    \/ /\ Len(gen.cast.field_name) >= 3
       /\ SubSeq(lower(gen.cast.field_name), Len(gen.cast.field_name) - 2,
                 Len(gen.cast.field_name)) = <<"_", "i", "d">>

Structured == "dict" \in gen.cast.python_types \/ "list" \in gen.cast.python_types

\* the numeric rule applies: a numeric name and an int or a float observed
NumericApplies ==
    /\ NameHas(NumericWords)
    /\ ("int" \in gen.cast.python_types \/ "float" \in gen.cast.python_types)

\* C21 as stated: the cast is that of the first rule, in the order timestamp,
\* boolean, numeric, identifier, structured, whose name condition matches the
\* field name; once a name condition matched no later rule is consulted, so
\* a numeric name always gets a numeric cast.
C21_FirstNameMatchWins ==
    gen.cast.inferred =>
        IF NameHas(TimestampWords) THEN gen.cast.cast_func = "to_timestamp_ntz"
        ELSE IF NameHas(BooleanWords) THEN gen.cast.cast_func = "to_boolean"
        ELSE IF NameHas(NumericWords) THEN gen.cast.cast_func \in {"to_number", "to_double"}
        ELSE IF NameIsId THEN gen.cast.cast_func = "to_varchar"
        ELSE IF Structured THEN gen.cast.cast_func = "variant"
        ELSE gen.cast.cast_func = "to_varchar"

\* C21 amended: the cast is that of the first rule that applies, in the
\* order timestamp, boolean, numeric, identifier, structured, where the
\* numeric rule applies only if the name matches and an int or a float was
\* observed (int gives to_number, else to_double); a numeric name with
\* neither falls through to the identifier and structured rules; with no
\* rule applying the cast is to_varchar.
C21_FirstApplicableWins ==
    gen.cast.inferred =>
        IF NameHas(TimestampWords) THEN gen.cast.cast_func = "to_timestamp_ntz"
        ELSE IF NameHas(BooleanWords) THEN gen.cast.cast_func = "to_boolean"
        ELSE IF NumericApplies
        THEN gen.cast.cast_func
               = (IF "int" \in gen.cast.python_types THEN "to_number" ELSE "to_double")
        ELSE IF NameIsId THEN gen.cast.cast_func = "to_varchar"
        ELSE IF Structured THEN gen.cast.cast_func = "variant"
        ELSE gen.cast.cast_func = "to_varchar"

\* a name matching the timestamp and the numeric rule, with an int observed
C21_Witness ==
    /\ gen.cast.inferred
    /\ gen.cast.field_name = <<"D", "a", "t", "e", "_", "c", "o", "u", "n", "t">>
    /\ gen.cast.python_types = {"int"}
    /\ gen.cast.cast_func = "to_timestamp_ntz"

\* the positions of the select list at which the field f is cast
CastsOf(f) ==
    {i \in 1..Len(gen.model.model_sql.field_extractions) :
        gen.model.model_sql.field_extractions[i].field = f}

EnvelopeColumns ==
    <<"meta__kafka_topic", "meta__partition", "meta__offset", "meta__kafka_location",
      "meta__partition_offset_location__sk", "meta__kafka_timestamp",
      "meta__kafka_headers", "meta__kafka_key", "meta__kafka_key__sk",
      "meta__is_tombstone", "meta__materialized_at">>

\* C22: a generated model has exactly one cast expression for every field of
\* the field list except the flattened array field; the base identifier
\* field is cast exactly once, directly after the surrogate key; and the
\* fixed envelope columns follow the field casts.
C22_EachFieldOnce ==
    (gen.model.ran /\ gen.model.model_created) =>
        /\ \A k \in 1..Len(gen.model.fields_to_use) :
              ~(/\ gen.model.model_sql.uses_flatten
                /\ gen.model.fields_to_use[k] = gen.model.model_sql.array_field)
              => Cardinality(CastsOf(gen.model.fields_to_use[k])) = 1
        /\ gen.model.model_sql.base_id_field # None
              => /\ CastsOf(gen.model.model_sql.base_id_field) = {1}
                 /\ gen.model.model_sql.select[2] = gen.model.model_sql.base_id_field
        /\ gen.model.model_sql.select[1] = gen.model.model_sql.unique_key
        /\ SubSeq(gen.model.model_sql.select,
                  Len(gen.model.model_sql.field_extractions) + 2,
                  Len(gen.model.model_sql.select)) = EnvelopeColumns

(***************************************************************************)
(* Further properties of the patch scripts (specification Spec).           *)
(***************************************************************************)
\* the DAG script located the configs list, found the table absent and wrote
\* what add_stream_config_to_file returned
AirflowInserted ==
    /\ surface = "airflow"
    /\ runs > 0
    /\ outcome.op = "main"
    /\ outcome.wrote

\* the lines of the configs list of a DAG document
ConfigsOf(doc) == configs_lines(doc, configs_search(doc))

\* the lines of a configs list that name the table
TableLines(lines, table_name) ==
    {n \in 1..Len(lines) : HasTable(lines[n]) /\ TableOf(lines[n]) = table_name}

\* C23: when the configs list is located and the guard reports the table
\* absent, the document add_stream_config_to_file returns holds exactly one
\* StreamTaskConfig block for the table inside the configs list, and
\* check_config_exists is true on it; also for an empty list and for a last
\* entry that does not end with '),'.
C23_AirflowInsertPost ==
    AirflowInserted =>
        /\ configs_search(file_content).found
        /\ Cardinality(TableLines(ConfigsOf(file_content), TableName)) = 1
        /\ check_config_exists(file_content, TableName)

\* the table names of the blocks of a configs list, in physical order
TablesOf(lines) ==
    [n \in 1..Len(SelectSeq(lines, HasTable)) |-> TableOf(SelectSeq(lines, HasTable)[n])]

\* a line that closes a StreamTaskConfig block
ClosesBlock(l) ==
    strip(l.txt) # <<>> /\ strip(l.txt)[Len(strip(l.txt))] \in {"),", ")"}

\* the line of the new block's table attribute lies in no existing block:
\* of the lines before the new block, as many open a block as close one
NewBlockOutside(lines, table_name) ==
    \A n \in TableLines(lines, table_name) :
        LET start == IF HasStreamTaskConfig(lines[n]) THEN n ELSE n - 1
        IN  Cardinality({k \in 1..(start - 1) : HasStreamTaskConfig(lines[k])})
            = Cardinality({k \in 1..(start - 1) : ClosesBlock(lines[k])})

\* the number of existing tables the new block has to follow
PlaceFor(old, table_name) ==
    IF \E q \in 1..Len(old) : StrLess(table_name, old[q])
    THEN Min({q \in 1..Len(old) : StrLess(table_name, old[q])}) - 1
    ELSE Len(old)

\* C24: add_stream_config_to_file puts the new block, as a whole,
\* immediately before the first existing block in physical order whose table
\* name is greater than the new one, or after the last block when none is
\* greater; the new block is inside no existing block and the existing
\* blocks keep their order.
C24_AirflowInsertPosition ==
    AirflowInserted =>
        /\ TablesOf(ConfigsOf(file_content))
             = SubSeq(TablesOf(ConfigsOf(before)), 1,
                      PlaceFor(TablesOf(ConfigsOf(before)), TableName))
               \o <<TableName>>
               \o SubSeq(TablesOf(ConfigsOf(before)),
                         PlaceFor(TablesOf(ConfigsOf(before)), TableName) + 1,
                         Len(TablesOf(ConfigsOf(before))))
        /\ NewBlockOutside(ConfigsOf(file_content), TableName)


\* the lines of the named connector's own block in a document: from the
\* line of the connector's key to the line before the next key that is
\* indented no deeper
OwnBlock(doc) ==
    LET occ == ConnectorAt(doc, ConnectorName, 1)
        i == FirstPos(occ)[1]
        next == {j \in (i + 1)..Len(doc) :
                    doc[j].txt # <<>> /\ doc[j].ind <= doc[i].ind}
    IN  IF occ = {} THEN {}
        ELSE i..(IF next = {} THEN Len(doc) ELSE Min(next) - 1)

\* the item lines under the header `key` of the connector's own block
OwnSection(doc, key) ==
    LET heads == {j \in OwnBlock(doc) : \E q \in 1..Len(doc[j].txt) :
                                           IsHeaderAt(doc, j, q, key)}
        h == Min(heads)
    IN  IF heads = {} THEN [found |-> FALSE, s |-> 1, e |-> 0]
        ELSE IF h = Len(doc) \/ ~IsItemLine(doc[h + 1])
        THEN [found |-> FALSE, s |-> h + 1, e |-> h]
        ELSE [found |-> TRUE, s |-> h + 1, e |-> RunEnd(doc, h + 1)]

\* file_content is the given document with x lines in the place of the
\* section t and y lines in the place of the section m that follows it
SameOutside(t, m, x, y) ==
    LET mid == SubSeq(before, t.e + 1, m.s - 1)
        ms == t.s + x + Len(mid)
    IN  file_content = SubSeq(before, 1, t.s - 1)
                       \o SubSeq(file_content, t.s, t.s + x - 1)
                       \o mid
                       \o SubSeq(file_content, ms, ms + y - 1)
                       \o SubSeq(before, m.e + 1, Len(before))

\* C25: add_topic_to_file changes only the topics section and, for a
\* realtime sink, the topic2table map section of the named connector: every
\* line of the document outside these sections, the sections of the other
\* connectors and the other occurrences of the connector's name included,
\* is the same before and after.
C25_HelmFrame ==
    Inserted =>
        LET t == OwnSection(before, "topics:")
            own_map == OwnSection(before, "snowflake.topic2table.map:")
            m == IF args.sink_type = "realtime" /\ own_map.found /\ own_map.s > t.e
                 THEN own_map
                 ELSE [found |-> FALSE, s |-> Len(before) + 1, e |-> Len(before)]
        IN  \E x, y \in 0..Len(file_content) :
                /\ ~t.found => x = 0
                /\ ~m.found => y = 0
                /\ t.s + x + (m.s - 1 - t.e) + y + (Len(before) - m.e)
                   = Len(file_content)
                /\ SameOutside(t, m, x, y)


\* file_content is the given document with the four lines of a block for
\* table_name put in after line p, and every other line as it was
BlockAddedAt(p, table_name) ==
    /\ Len(file_content) = Len(before) + 4
    /\ SubSeq(file_content, 1, p) = SubSeq(before, 1, p)
    /\ SubSeq(file_content, p + 5, Len(file_content))
       = SubSeq(before, p + 1, Len(before))
    /\ HasStreamTaskConfig(file_content[p + 1])
    /\ HasTable(file_content[p + 2])
    /\ TableOf(file_content[p + 2]) = table_name
    /\ EndsEntry(file_content[p + 4])

\* C26: after add_stream_config_to_file the document without the lines of
\* the newly inserted block is the original document, line for line: no
\* existing line, blank separator lines between or after the existing
\* entries included, is removed or altered.
C26_AirflowVerbatim ==
    AirflowInserted =>
        \/ file_content = before
        \/ \E p \in 0..Len(before) : BlockAddedAt(p, TableName)


\* add_source_to_yaml returned True and the sources file was written
DbtAdded ==
    surface = "dbt" /\ runs > 0 /\ outcome.op = "add_source" /\ outcome.wrote

\* the lines of the table entry that opens on line i: the line itself and
\* the deeper indented lines under it
EntryLines(doc, i) ==
    LET under == {e \in i..Len(doc) : \A x \in (i + 1)..e : doc[x].ind > doc[i].ind}
    IN  SubSeq(doc, i, Max(under))

\* every table entry of the document as the YAML reader sees it: the name
\* of its source and its own lines
EntriesOf(doc) ==
    UNION {{<<NameOf(doc[src]), EntryLines(doc, i)>> : i \in yaml_tables(doc, src)} :
           src \in yaml_sources(doc)}

\* C27: whenever add_source_to_yaml reports success, the table names of the
\* source 'kafka_realtime', as the guard reads them, are the previous names
\* and the new '<table>_processed' name; the table list of every other
\* source and the own lines of every existing table entry are unchanged and
\* stay with their entry.
C27_DbtInsertInGuardedList ==
    DbtAdded =>
        /\ kafka_realtime_source(file_content) # 0
        /\ existing_table_names(file_content)
           = existing_table_names(before) \cup {source_table_name(TableName)}
        /\ \E ind \in 0..8 :
              EntriesOf(file_content)
              = EntriesOf(before)
                \cup {<<<<"kafka_realtime">>,
                        <<Line(ind, <<"- name: ">> \o source_table_name(TableName))>>>>}


\* the topics section the pattern of check_topic_exists matches in the
\* document the last operation was given
GuardSection == re_search(before, ConnectorName, "topics:", FALSE, 1)

\* the last operation called add_topic_to_file
InsertAttempted ==
    /\ surface = "helm"
    /\ runs > 0
    /\ \/ outcome.op = "insert"
       \/ outcome.op = "main" /\ ~outcome.guard

\* C28: for every document and connector for which the pattern of
\* check_topic_exists matches a topics section, add_topic_to_file locates
\* the same section and inserts into it, and does not exit with "Could not
\* find topics section"; a section followed by a blank line included.
C28_GuardAndLocatorAgree ==
    (InsertAttempted /\ GuardSection.found) =>
        /\ outcome.exit = 0
        /\ TopicsBefore.found
        /\ TopicsBefore.j = GuardSection.j
        /\ TopicsBefore.s = GuardSection.s
        /\ TopicsBefore.e = GuardSection.e


(***************************************************************************)
(* Further properties of the orchestrator (specification SpecOrch).        *)
(***************************************************************************)
\* the places of the command cmd in the log of task t
RanAt(t, cmd) == {n \in 1..Len(task[t].log) : task[t].log[n] = cmd}

\* every run of the command `later` comes after a run of `earlier`
Follows(t, later, earlier) ==
    \A n \in RanAt(t, later) : \E m \in RanAt(t, earlier) : m < n

\* C29: in every PR task the pull request is created only after the push
\* of the branch returned success, the push is attempted only after the
\* commit returned success, the commit is attempted only when the working
\* copy has changes after the patch script ran, a 'success' record is
\* returned only when the PR creation returned 0, and once the task has
\* returned 'failed' or 'no_changes' it runs no further command.
C29_StepOrdering ==
    /\ [](\A t \in Steps :
            /\ RanAt(t, "pr") # {} => task[t].pushed /\ Follows(t, "pr", "push")
            /\ RanAt(t, "push") # {} => task[t].committed /\ Follows(t, "push", "commit")
            /\ RanAt(t, "commit") # {} => task[t].dirty /\ Follows(t, "commit", "script")
            /\ future[t].status = "success" =>
                  /\ task[t].pr_created
                  /\ task[t].log[Len(task[t].log)] = "pr")
    /\ [][\A t \in Steps :
            future[t].status \in {"failed", "no_changes"} =>
                /\ task'[t].log = task[t].log
                /\ future'[t] = future[t]]_vars

\* one task went through commit, push and PR creation and returned
\* 'success'; its sibling returned 'no_changes' after git status
C29_Witness ==
    /\ future["helm-apps"].status = "success"
    /\ task["helm-apps"].log = <<"clone", "checkout", "branch", "script", "status",
                                 "add", "commit", "push", "ls-remote", "pr">>
    /\ future["data-airflow"].status = "no_changes"
    /\ task["data-airflow"].log[Len(task["data-airflow"].log)] = "status"


(***************************************************************************)
(* The topics list and the topic2table map of a realtime connector.        *)
(***************************************************************************)
\* the entries of a section of the named connector
OwnEntries(doc, key) ==
    LET sec == OwnSection(doc, key)
    IN  IF sec.found THEN parse_entries(SubSeq(doc, sec.s, sec.e)) ELSE <<>>

OwnTopicList(doc) == OwnEntries(doc, "topics:")
OwnMappings(doc) == OwnEntries(doc, "snowflake.topic2table.map:")
MappedTopics(doc) ==
    [n \in 1..Len(OwnMappings(doc)) |-> split_colon_first(OwnMappings(doc)[n])]

Named(list) == {list[n] : n \in 1..Len(list)}

NoRepeats(list) == \A x, y \in 1..Len(list) : list[x] = list[y] => x = y

\* the two lists name the same topics, each of them once
ListsAgree(doc) ==
    /\ OwnSection(doc, "topics:").found
    /\ OwnSection(doc, "snowflake.topic2table.map:").found
    /\ Named(OwnTopicList(doc)) = Named(MappedTopics(doc))
    /\ NoRepeats(OwnTopicList(doc))
    /\ NoRepeats(MappedTopics(doc))

\* C30: when the topics list and the snowflake.topic2table.map list of a
\* realtime connector name the same set of topics, they still do after a
\* guarded onboarding (check_topic_exists, then add_topic_to_file) of any
\* topic, and so after any sequence of them; each topic occurs at most once
\* in each list and each added mapping is 'topic:generate_table_name(topic)'.
C30_TopicsAndMapAgree ==
    [][(/\ surface = "helm"
        /\ args.sink_type = "realtime"
        /\ runs' = runs + 1
        /\ outcome'.op = "main"
        /\ ListsAgree(file_content))
       => /\ ListsAgree(file_content')
          /\ Named(OwnMappings(file_content')) \ Named(OwnMappings(file_content))
             \subseteq {args.topic \o <<":">> \o generate_table_name(args.topic)}]_vars

==========================================================================
